---- MODULE Spec2Model ----
(***************************************************************************)
(* A model of the concurrency and I/O engine of the static-file HTTP       *)
(* server: the object pool (lib/objpool.c), the per-connection job state   *)
(* machine (core/job.c), the worker reactor (core/worker.c), the listener  *)
(* (core/listener.c), the poller backends (platform/*/poller.c) and the    *)
(* HTTP message functions (lib/httpmsg.c, core/http.c).                    *)
(*                                                                         *)
(* The specifications below share the definitions:                         *)
(*   SpecPool  several threads calling objpool_acquire / objpool_release   *)
(*             statement by statement on one pool;                         *)
(*   SpecJob   one accepted job on one worker, every readiness event and   *)
(*             every outcome of recv / send;                               *)
(*   Spec      a listener, the workers, the job pool and the pollers;      *)
(*   SpecAccept  the same server with enough arrivals to empty the pool,   *)
(*             the workers' only event being the peer's close.             *)
(*   SpecReject  the same server started with every job but one in use;    *)
(*   SpecThread  the thread of one poller from poller_run to its exit;     *)
(*   SpecStop, SpecStopFair  the server with SIGINT at any moment;         *)
(*   SpecPath  message_resolve_path (lib/httpmsg.c) on every short target; *)
(*   SpecParse  message_parse on every short request;                      *)
(*   SpecMethod  http_process (core/http.c) on method tokens;              *)
(*   SpecConfig  config_get (core/config.c) on small positive options;     *)
(*   SpecTls   the TLS handshake steps of one connection;                  *)
(*   SpecCount  epoll's poller_add and poller_remove, statement by         *)
(*             statement, from a listener thread and the worker thread;    *)
(*   SpecPort  the event-ports server with port_getn and the handler as    *)
(*             separate steps, so that a listener can assign in between;   *)
(*   SpecModify  poller_modify of each backend on small pollers;           *)
(*   SpecSendfile  the buffered sendfile, one loop turn per step;          *)
(*   SpecBuffer  message_resolve_path with the size of its path buffer;    *)
(*   SpecItems  the generic poll items array and fd map under add/remove.  *)
(***************************************************************************)
EXTENDS Integers, Sequences, FiniteSets, TLC

\* ------------------------------------------------------------- bounds

\* config max_conn: the pool then holds max_conn + 2 jobs.
MaxConn == 2

\* Number of threads that call the pool concurrently in SpecPool.
NThreads == 2

\* Cap on the number of successful acquires counted in SpecPool.
MaxOps == 6

\* config worker_cnt: the number of workers (and of their pollers).
NWorkers == 2

\* Cap on the connections that arrive at the listening socket.
MaxArrive == 2

\* Cap on the turns of one accept_conn's round-robin loop, which has no
\* exit while every worker_assign fails.
MaxTries == 3

\* Length of every response head the server builds (bytes); an error body
\* is one byte longer and the served file two bytes longer.
MaxLen == 2

\* --------------------------------------------------- program constants

NULL == 0

\* The global job pool size (core/config.c: max_job = max_conn + 2).
max_job == MaxConn + 2

Cells == 1..max_job

Threads == 1..NThreads
worker_count == NWorkers
Workers == 0..(worker_count - 1)
\* config.c: the item size of each worker's poller.
worker_max_job == (MaxConn \div worker_count) + 1
Fds == 1..max_job

\* lib/poller.h
POLL_CODE_READ == 1

POLL_CODE_WRITE == 2

POLL_CODE_ERROR == 8

POLL_CODE_CLOSE == 16

\* core/job.h
JOB_STATE_READ == 0

JOB_STATE_WRITE == 1

\* core/http.h
RESPONSE_TYPE_HEAD_ONLY == 0

RESPONSE_TYPE_STRING == 1

RESPONSE_TYPE_FILE == 2

\* The value of connection.socket after connection_init.
NOSOCK == -1

\* connection.socket of a cell on the free list: the field shares the
\* cell's first machine word with node_t.next, so it holds the low half of
\* a pointer.
LINKWORD == -2

\* response.file_fd after http_init, and the descriptor of an opened file.
NOFILE == -1

FILEFD == 3

\* The build's POLL_ENGINE.
Engines == {"epoll", "upoll", "kqueue", "evport"}

HeadLen == MaxLen

BodyLen == MaxLen + 1

FileLen == MaxLen + 2

\* code & bit, for a bit that is a power of two.
HasBit(code, bit) == (code \div bit) % 2 = 1

\* ------------------------------------------------------------ variables

VARIABLES
    next_free,    \* objpool_t.next_free: head of the intrusive free list
    link,         \* first machine word of each cell: node_t.next
    lock,         \* objpool_t.lock: NULL or the thread that holds it
    tpc,          \* SpecPool: each thread's position in acquire / release
    tnode,        \* SpecPool: each thread's local _node
    held,         \* SpecPool: the cells each thread got and has not released
    n_acquired,   \* SpecPool: successful acquires so far
    n_released,   \* SpecPool: releases so far
    engine,       \* POLL_ENGINE the server was built with
    tls,          \* whether the server has an SSL context (config)
    job,          \* the job_t stored in each cell
    reg,          \* per worker poller: the registered <<fd, code bit, context>>
    item_count,   \* per worker poller: poller_t.item_count
    open_fds,     \* the connection sockets that are open
    backlog,      \* connections waiting in the listening socket's queue
    arrived,      \* connections that have arrived so far
    lready,       \* the poller has an unreported edge on the listening socket
    wpc,          \* each worker's position: waiting, or inside finish_job
    wjob,         \* the job a worker is finishing
    wpend,        \* kqueue: events of the current batch not yet dispatched
    lpc,          \* the listener's position
    next_job,     \* listener data_t.next_job
    ljob,         \* listener on_event local _job
    worker_cycle, \* listener data_t.worker_cycle
    lcycle,       \* accept_conn local _cycle
    n_close,      \* history: connection_close calls on the cell's socket
    n_return,     \* history: manager_return_job calls since the cell was got
    resets,       \* history: the job before each job_reset of the last event
    wfin,         \* history: why the last event of a worker ended in finish_job
    assign_log,   \* history: the worker that took each connection
    tried,        \* history: the workers tried by the current accept_conn
    any_fail,     \* history: some worker_assign has failed
    lret,         \* history: how the listener's on_event last returned
    pt_cfg,       \* SpecThread: whether on_event / on_stop were given to poller_init
    pt_pc,        \* SpecThread: the poller thread's position in thread_routine
    pt_cancel,    \* SpecThread: the cancellation request: none, pending, acted
    pt_pushed,    \* SpecThread: thread_cleanup is on the cleanup stack
    pt_left,      \* SpecThread: events of the fetched batch not yet dispatched
    n_on_stop,    \* SpecThread history: calls of on_stop
    n_dispatch,   \* SpecThread history: calls of on_event
    ev_after_stop,\* SpecThread history: on_event was called after on_stop
    wth,          \* SpecStop: each worker's poller thread: run, exited
    wcancel,      \* SpecStop: a cancellation request is pending on the worker
    lth,          \* SpecStop: the listener's poller thread: run, exited
    lcancel,      \* SpecStop: a cancellation request is pending on the listener
    opc,          \* SpecStop: the orchestrator's position in the shutdown
    call_arg,     \* SpecPath, SpecParse, SpecMethod: the arguments of the call
    call_ret      \* SpecPath, SpecParse, SpecMethod: what the call returned

poolVars == <<next_free, link, lock>>

ptVars ==
    <<pt_cfg, pt_pc, pt_cancel, pt_pushed, pt_left, n_on_stop, n_dispatch,
      ev_after_stop>>

stopVars == <<wth, wcancel, lth, lcancel, opc>>

callVars == <<call_arg, call_ret>>

\* The variables of the threads: the callers of the pool, the poller thread
\* of SpecThread, the poller threads and the orchestrator of SpecStop, the
\* caller of a function of the HTTP layer.
thrVars ==
    <<tpc, tnode, held, n_acquired, n_released, ptVars, stopVars, callVars>>

pollVars == <<reg, item_count>>

workerVars == <<wpc, wjob, wpend>>

listenerVars == <<lpc, next_job, ljob, worker_cycle, lcycle>>

netVars == <<open_fds, backlog, arrived, lready>>

histVarsButRet ==
    <<n_close, n_return, resets, wfin, assign_log, tried, any_fail>>

histVars ==
    <<n_close, n_return, resets, wfin, assign_log, tried, any_fail, lret>>

engineVars ==
    <<engine, tls, job, pollVars, workerVars, listenerVars, netVars, histVars>>

vars == <<poolVars, thrVars, engineVars>>

\* ---------------------------------------------------------- object pool

\* objpool_allocate threads the whole block: cell i points to cell i + 1,
\* the last one to NULL, and next_free is the first cell.
objpool_allocate_link == [c \in Cells |-> IF c < max_job THEN c + 1 ELSE NULL]

objpool_allocate_head == 1

\* The cells met by following next from p, at most n of them (a corrupted
\* list may be cyclic, so the walk is cut).
RECURSIVE FreeWalk(_, _, _)
FreeWalk(p, lk, n) ==
    IF p = NULL \/ n = 0 THEN <<>> ELSE <<p>> \o FreeWalk(lk[p], lk, n - 1)

FreeList == FreeWalk(next_free, link, max_job + 1)

FreeCells == {FreeList[i] : i \in 1..Len(FreeList)}

\* pthread_mutex_lock at the head of objpool_acquire: waits for the lock.
objpool_acquire_nolock(t) ==
    /\ tpc[t] = "idle"
    /\ n_acquired < MaxOps
    /\ tpc' = [tpc EXCEPT ![t] = "acq_read"]
    /\ UNCHANGED <<next_free, link, lock, tnode, held, n_acquired, n_released, engineVars,
                   ptVars, stopVars, callVars>>

objpool_acquire_lock(t) ==
    /\ tpc[t] = "idle"
    /\ n_acquired < MaxOps
    /\ lock = NULL
    /\ lock' = t
    /\ tpc' = [tpc EXCEPT ![t] = "acq_read"]
    /\ UNCHANGED <<next_free, link, tnode, held, n_acquired, n_released, engineVars,
                   ptVars, stopVars, callVars>>

\* node_t* _node = objpool->next_free;
objpool_acquire_read(t) ==
    /\ tpc[t] = "acq_read"
    /\ tnode' = [tnode EXCEPT ![t] = next_free]
    /\ tpc' = [tpc EXCEPT ![t] = "acq_pop"]
    /\ UNCHANGED <<next_free, link, lock, held, n_acquired, n_released, engineVars,
                   ptVars, stopVars, callVars>>

\* if (_node != NULL) objpool->next_free = _node->next;
objpool_acquire_pop(t) ==
    /\ tpc[t] = "acq_pop"
    /\ next_free' = IF tnode[t] # NULL THEN link[tnode[t]] ELSE next_free
    /\ tpc' = [tpc EXCEPT ![t] = "acq_unlock"]
    /\ UNCHANGED <<link, lock, tnode, held, n_acquired, n_released, engineVars,
                   ptVars, stopVars, callVars>>

\* pthread_mutex_unlock; return _node;
objpool_acquire_unlock(t) ==
    /\ tpc[t] = "acq_unlock"
    /\ lock' = IF lock = t THEN NULL ELSE lock
    /\ held' = [held EXCEPT ![t] = IF tnode[t] # NULL
                                   THEN @ \cup {tnode[t]} ELSE @]
    /\ n_acquired' = IF tnode[t] # NULL THEN n_acquired + 1 ELSE n_acquired
    /\ tpc' = [tpc EXCEPT ![t] = "idle"]
    /\ UNCHANGED <<next_free, link, tnode, n_released, engineVars,
                   ptVars, stopVars, callVars>>

\* objpool_release(objpool, object): the caller gives up a cell it holds;
\* pthread_mutex_lock.
objpool_release_lock(t, c) ==
    /\ tpc[t] = "idle"
    /\ c \in held[t]
    /\ lock = NULL
    /\ lock' = t
    /\ held' = [held EXCEPT ![t] = @ \ {c}]
    /\ tnode' = [tnode EXCEPT ![t] = c]
    /\ tpc' = [tpc EXCEPT ![t] = "rel_link"]
    /\ UNCHANGED <<next_free, link, n_acquired, n_released, engineVars,
                   ptVars, stopVars, callVars>>

\* A release that forgets to thread the cell onto the list.
objpool_release_nolink(t) ==
    /\ tpc[t] = "rel_link"
    /\ tpc' = [tpc EXCEPT ![t] = "rel_push"]
    /\ UNCHANGED <<next_free, link, lock, tnode, held, n_acquired, n_released, engineVars,
                   ptVars, stopVars, callVars>>

\* _node->next = objpool->next_free;
objpool_release_link(t) ==
    /\ tpc[t] = "rel_link"
    /\ link' = [link EXCEPT ![tnode[t]] = next_free]
    /\ tpc' = [tpc EXCEPT ![t] = "rel_push"]
    /\ UNCHANGED <<next_free, lock, tnode, held, n_acquired, n_released, engineVars,
                   ptVars, stopVars, callVars>>

\* objpool->next_free = _node;
objpool_release_push(t) ==
    /\ tpc[t] = "rel_push"
    /\ next_free' = tnode[t]
    /\ tpc' = [tpc EXCEPT ![t] = "rel_unlock"]
    /\ UNCHANGED <<link, lock, tnode, held, n_acquired, n_released, engineVars,
                   ptVars, stopVars, callVars>>

\* pthread_mutex_unlock.
objpool_release_unlock(t) ==
    /\ tpc[t] = "rel_unlock"
    /\ lock' = NULL
    /\ n_released' = n_released + 1
    /\ tpc' = [tpc EXCEPT ![t] = "idle"]
    /\ UNCHANGED <<next_free, link, tnode, held, n_acquired, engineVars,
                   ptVars, stopVars, callVars>>

InitPoolState ==
    /\ next_free = objpool_allocate_head
    /\ link = objpool_allocate_link
    /\ lock = NULL

\* The callers of the pool before their first call.
InitCallers ==
    /\ tpc = [t \in Threads |-> "idle"]
    /\ tnode = [t \in Threads |-> NULL]
    /\ held = [t \in Threads |-> {}]
    /\ n_acquired = 0
    /\ n_released = 0

\* A poller whose thread is not watched (outside SpecThread).
InitPollerIdle ==
    /\ pt_cfg = [on_event |-> TRUE, on_stop |-> FALSE]
    /\ pt_pc = "idle"
    /\ pt_cancel = "none"
    /\ pt_pushed = FALSE
    /\ pt_left = 0
    /\ n_on_stop = 0
    /\ n_dispatch = 0
    /\ ev_after_stop = FALSE

\* The poller threads of the listener and the workers running, no stop
\* requested.
InitRunning ==
    /\ wth = [w \in Workers |-> "run"]
    /\ wcancel = [w \in Workers |-> FALSE]
    /\ lth = "run"
    /\ lcancel = FALSE
    /\ opc = "serve"

\* No call of the HTTP layer is watched (outside SpecPath, SpecParse and
\* SpecMethod).
InitNoCall ==
    /\ call_arg = <<>>
    /\ call_ret = <<>>

InitThreads ==
    /\ InitCallers
    /\ InitPollerIdle
    /\ InitRunning
    /\ InitNoCall

\* ------------------------------------------------------------------ job

Min(a, b) == IF a < b THEN a ELSE b

\* http_init: the response is cleared (status stands for the head text).
http_init(j) ==
    [j EXCEPT !.should_close = FALSE,
              !.type = RESPONSE_TYPE_STRING,
              !.status = 0,
              !.head_length = 0,
              !.body_length = 0,
              !.file_fd = NOFILE,
              !.file_size = 0]

\* job_init: *job = (job_t){...}; connection_init; http_init.
job_init ==
    [socket |-> NOSOCK, ssl |-> FALSE, tls_established |-> FALSE,
     state |-> JOB_STATE_READ,
     sent_head |-> 0, sent_body |-> 0, sent_file |-> 0,
     poll_code |-> 0,
     should_close |-> FALSE, type |-> RESPONSE_TYPE_STRING, status |-> 0,
     head_length |-> 0, body_length |-> 0,
     file_fd |-> NOFILE, file_size |-> 0]

\* build_head_error + build_body_error.
build_error(j, status) ==
    [j EXCEPT !.status = status, !.head_length = HeadLen,
              !.body_length = BodyLen]

\* process_request: resolve, open and stat the file, then build the 200
\* head; any failure gives the 404 response.
process_request(j, found, size) ==
    IF found
    THEN [j EXCEPT !.file_fd = FILEFD, !.file_size = size,
                   !.type = RESPONSE_TYPE_FILE,
                   !.status = 200, !.head_length = HeadLen]
    ELSE build_error(j, 404)

\* The requests a client can send, by what http_process makes of them:
\* a parse failure, GET / HEAD of a file that exists (with its size) or
\* does not, OPTIONS, any other method.
Requests ==
    {[method |-> m, found |-> f, size |-> z] :
        m \in {"GET", "HEAD"}, f \in {TRUE}, z \in {0, FileLen}}
    \cup {[method |-> m, found |-> FALSE, size |-> 0] : m \in {"GET", "HEAD"}}
    \cup {[method |-> m, found |-> FALSE, size |-> 0] :
            m \in {"OPTIONS", "DELETE", "malformed"}}

\* A recv that brings zero bytes.
NoRequest == [method |-> "none", found |-> FALSE, size |-> 0]

\* http_process.
http_process(j, req) ==
    CASE req.method = "malformed" ->
            [build_error(j, 400) EXCEPT !.should_close = TRUE]
      [] req.method = "GET" -> process_request(j, req.found, req.size)
      [] req.method = "HEAD" ->
            [process_request(j, req.found, req.size)
                EXCEPT !.type = RESPONSE_TYPE_HEAD_ONLY]
      [] req.method = "OPTIONS" ->
            \* build_head_options writes the head and leaves head_length.
            [j EXCEPT !.status = 204, !.type = RESPONSE_TYPE_HEAD_ONLY]
      [] OTHER -> [build_error(j, 405) EXCEPT !.should_close = TRUE]

\* job_reset without the clearing of the send counters.
job_reset_keep(j) ==
    [http_init(j) EXCEPT !.state = JOB_STATE_READ]

\* job_reset: http_cleanup, http_init, state = Read, counters = 0.
job_reset(j) ==
    [http_init(j) EXCEPT !.state = JOB_STATE_READ,
                         !.sent_head = 0, !.sent_body = 0, !.sent_file = 0]

\* job_has_more_write.
job_has_more_write(j) ==
    LET _headrem == j.head_length - j.sent_head
        _bodyrem == j.body_length - j.sent_body
        _filerem == j.file_size - j.sent_file
    IN  CASE j.type = RESPONSE_TYPE_STRING -> _headrem > 0 \/ _bodyrem > 0
          [] j.type = RESPONSE_TYPE_FILE -> _headrem > 0 \/ _filerem > 0
          [] OTHER -> _headrem > 0

\* connection_send / buff_sendfile: loop while *sent < size; a would-block
\* ends the loop with 0, another error with -1. o tells what the socket
\* does during the call: it takes o.k more bytes, then would block or
\* (o.err) fails.
connection_send(size, sent, o) ==
    LET n == Min(o.k, size - sent)
    IN  [sent |-> sent + n,
         ret |-> IF o.err /\ sent + n < size THEN -1 ELSE 0]

\* What job_write returns: the job, the return value, and whether a send
\* failed with an error other than would-block.
WriteResult(j, ret, senderr) == [j |-> j, ret |-> ret, senderr |-> senderr]

\* job_write after its second send s: if (_ret == -1 || sent == 0) return
\* -1; if (should_close) return -1; return 0.
job_write_end(j, s) ==
    IF s.ret = -1 \/ s.sent = 0 THEN WriteResult(j, -1, s.ret = -1)
    ELSE WriteResult(j, IF j.should_close THEN -1 ELSE 0, FALSE)

\* job_write, the file branch: connection_sendfile has run with result s.
job_write_file(j, s) == job_write_end([j EXCEPT !.sent_file = s.sent], s)

\* job_write, the other branch: connection_send of the body, result s.
job_write_body(j, s) == job_write_end([j EXCEPT !.sent_body = s.sent], s)

\* job_write after the head has been sent with result h.
job_write_head(j, h, ob) ==
    IF h.ret = -1 \/ h.sent = 0
    THEN WriteResult([j EXCEPT !.sent_head = h.sent], -1, h.ret = -1)
    ELSE IF j.type = RESPONSE_TYPE_FILE
    THEN job_write_file([j EXCEPT !.sent_head = h.sent],
                        connection_send(j.file_size, j.sent_file, ob))
    ELSE job_write_body([j EXCEPT !.sent_head = h.sent],
                        connection_send(j.body_length, j.sent_body, ob))

\* job_write: oh and ob tell what the socket does during the two sends.
job_write(j, oh, ob) ==
    job_write_head(j, connection_send(j.head_length, j.sent_head, oh), ob)

\* What the history keeps of a job at a job_reset call.
ResetNote(j) ==
    [state |-> j.state, more |-> job_has_more_write(j),
     should_close |-> j.should_close]

\* What SSL_get_error can report after an SSL_accept that did not return 1.
SslErrors ==
    {"SSL_ERROR_SSL", "SSL_ERROR_WANT_READ", "SSL_ERROR_WANT_WRITE",
     "SSL_ERROR_WANT_X509_LOOKUP", "SSL_ERROR_SYSCALL",
     "SSL_ERROR_ZERO_RETURN", "SSL_ERROR_WANT_ACCEPT"}

\* SSL_accept returns 1: the handshake is complete.
AcceptDone == [ret |-> 1, err |-> "SSL_ERROR_NONE"]

\* SSL_accept on a descriptor that is not open.
AcceptSyscall == [ret |-> -1, err |-> "SSL_ERROR_SYSCALL"]

\* What one SSL_accept can do: return 1, or return 0 or less with an error.
AcceptOutcomes ==
    {AcceptDone}
    \cup {[ret |-> r, err |-> e] : r \in {-1, 0}, e \in SslErrors}

\* connection_establish_tls (platform/unix: connection_establish_ssl) on
\* the connection c when SSL_accept does a: the connection it leaves and
\* the value it returns.
connection_establish_tls(c, a) ==
    IF ~c.ssl THEN [conn |-> c, ret |-> 0]
    ELSE IF a.ret = 1
    THEN [conn |-> [c EXCEPT !.tls_established = TRUE], ret |-> 0]
    ELSE IF a.err = "SSL_ERROR_WANT_READ" THEN [conn |-> c, ret |-> 0]
    ELSE [conn |-> c, ret |-> -1]

ReadResult(j, ret, rs) ==
    [j |-> j, ret |-> ret, resets |-> rs, hs |-> "none"]

\* What job_read returns when the handshake step failed with the error err.
HandshakeResult(j, err) == [j |-> j, ret |-> -1, resets |-> <<>>, hs |-> err]

\* job_read from the recv on, with every empty recv an error.
job_read_recv_strict(j, o, _err_empty_recv, rs) ==
    IF o.err \/ o.req = NoRequest THEN ReadResult(j, -1, rs)
    ELSE ReadResult([http_process(j, o.req) EXCEPT !.state = JOB_STATE_WRITE],
                    0, rs)

\* job_read from the recv on: j is the job after the reset, if any.
job_read_recv(j, o, _err_empty_recv, rs) ==
    IF o.err THEN ReadResult(j, -1, rs)
    ELSE IF o.req = NoRequest
    THEN ReadResult(j, IF _err_empty_recv THEN -1 ELSE 0, rs)
    ELSE ReadResult([http_process(j, o.req) EXCEPT !.state = JOB_STATE_WRITE],
                    0, rs)

\* job_read after the handshake: reset the job if the previous write was
\* not done yet.
job_read_reset(j, o, _err_empty_recv) ==
    IF j.state = JOB_STATE_WRITE
    THEN job_read_recv(job_reset(j), o, _err_empty_recv, <<ResetNote(j)>>)
    ELSE job_read_recv(j, o, _err_empty_recv, <<>>)

\* job_read after its call of connection_establish_tls, which left e.
job_read_established(o, e) ==
    IF e.ret = -1 THEN HandshakeResult(e.conn, o.hs.err)
    ELSE IF ~e.conn.tls_established THEN ReadResult(e.conn, 0, <<>>)
    ELSE job_read_reset(e.conn, o, FALSE)

\* job_read. o tells what the call meets: what SSL_accept does in the
\* handshake step, whether recv fails, and the request received
\* (NoRequest: zero bytes). resets lists what the job was at each job_reset
\* call.
job_read(j, o) ==
    IF j.ssl /\ ~j.tls_established
    THEN job_read_established(o, connection_establish_tls(j, o.hs))
    ELSE job_read_reset(j, o, TRUE)

\* --------------------------------------------------------------- poller

\* The READ / WRITE bits of a poll code.
CodeBits(code) ==
    {b \in {POLL_CODE_READ, POLL_CODE_WRITE} : HasBit(code, b)}

\* The registrations a poller call asks for.
Items(fd, code, ctx) == {<<fd, b, ctx>> : b \in CodeBits(code)}

OfFd(r, fd) == {it \in r : it[1] = fd}

OfFdBits(r, fd, code) == {it \in r : it[1] = fd /\ it[2] \in CodeBits(code)}

PollerFail(P) == [ok |-> FALSE, reg |-> P.reg, cnt |-> P.cnt]

\* A poller call that succeeded and left the registrations r, the count n.
PollerOk(r, n) == [ok |-> TRUE, reg |-> r, cnt |-> n]

\* The calls below act on the poller P = [reg, cnt]; valid says whether fd
\* is an open descriptor (the kernel refuses any other).

\* epoll: EPOLL_CTL_ADD refuses a descriptor that is registered already.
poller_add_epoll(P, fd, code, ctx, valid) ==
    IF P.cnt >= worker_max_job \/ ~valid \/ OfFd(P.reg, fd) # {}
    THEN PollerFail(P)
    ELSE PollerOk(P.reg \cup Items(fd, code, ctx), P.cnt + 1)

\* EPOLL_CTL_MOD needs a registered descriptor.
poller_modify_epoll(P, fd, code, ctx, valid) ==
    IF ~valid \/ OfFd(P.reg, fd) = {}
    THEN PollerFail(P)
    ELSE PollerOk((P.reg \ OfFd(P.reg, fd)) \cup Items(fd, code, ctx), P.cnt)

\* EPOLL_CTL_DEL; the code is ignored.
poller_remove_epoll(P, fd, code) ==
    IF OfFd(P.reg, fd) = {}
    THEN PollerFail(P)
    ELSE PollerOk(P.reg \ OfFd(P.reg, fd), P.cnt - 1)

\* Generic poll: the array is full at item_size - 1 entries; the descriptor
\* is not handed to the kernel, so any value is taken.
poller_add_upoll(P, fd, code, ctx, valid) ==
    IF P.cnt >= worker_max_job - 1
    THEN PollerFail(P)
    ELSE PollerOk(P.reg \cup Items(fd, code, ctx), P.cnt + 1)

\* Generic poll: returns -1 as soon as map_get finds the descriptor, and
\* changes nothing. (A worker calls it only for the descriptor of the event
\* it handles, which is in the map.)
poller_modify_upoll(P, fd, code, ctx, valid) == PollerFail(P)

\* Generic poll: the entry is taken out of the array and the map.
poller_remove_upoll(P, fd, code) ==
    IF OfFd(P.reg, fd) = {}
    THEN PollerFail(P)
    ELSE PollerOk(P.reg \ OfFd(P.reg, fd), P.cnt - 1)

\* kqueue: one kevent change (EV_ADD) per filter of the code, and one count
\* per filter; EV_ADD of a registered filter replaces its udata.
poller_add_kqueue(P, fd, code, ctx, valid) ==
    IF P.cnt >= worker_max_job \/ CodeBits(code) = {} \/ ~valid
    THEN PollerFail(P)
    ELSE PollerOk((P.reg \ OfFdBits(P.reg, fd, code)) \cup Items(fd, code, ctx),
                  P.cnt + Cardinality(CodeBits(code)))

\* kqueue: EV_ADD again for each filter of the code; the count stays.
poller_modify_kqueue(P, fd, code, ctx, valid) ==
    IF CodeBits(code) = {} \/ ~valid
    THEN PollerFail(P)
    ELSE PollerOk((P.reg \ OfFdBits(P.reg, fd, code)) \cup Items(fd, code, ctx),
                  P.cnt)

\* kqueue: EV_DELETE for each filter of the code; kevent fails when one of
\* them is not registered.
poller_remove_kqueue(P, fd, code) ==
    IF CodeBits(code) = {}
       \/ \E b \in CodeBits(code) : OfFdBits(P.reg, fd, b) = {}
    THEN PollerFail(P)
    ELSE PollerOk(P.reg \ OfFdBits(P.reg, fd, code),
                  P.cnt - Cardinality(CodeBits(code)))

\* Event ports: port_associate of an associated descriptor replaces the
\* association; item_count is incremented all the same.
poller_add_evport(P, fd, code, ctx, valid) ==
    IF P.cnt >= worker_max_job \/ ~valid
    THEN PollerFail(P)
    ELSE PollerOk((P.reg \ OfFd(P.reg, fd)) \cup Items(fd, code, ctx),
                  P.cnt + 1)

\* Event ports: port_associate, the count stays.
poller_modify_evport(P, fd, code, ctx, valid) ==
    IF ~valid
    THEN PollerFail(P)
    ELSE PollerOk((P.reg \ OfFd(P.reg, fd)) \cup Items(fd, code, ctx), P.cnt)

\* Event ports: port_dissociate fails on a descriptor that is not
\* associated.
poller_remove_evport(P, fd, code) ==
    IF OfFd(P.reg, fd) = {}
    THEN PollerFail(P)
    ELSE PollerOk(P.reg \ OfFd(P.reg, fd), P.cnt - 1)

\* poller_add of the backend the server was built with.
poller_add(e, P, fd, code, ctx, valid) ==
    CASE e = "epoll" -> poller_add_epoll(P, fd, code, ctx, valid)
      [] e = "upoll" -> poller_add_upoll(P, fd, code, ctx, valid)
      [] e = "kqueue" -> poller_add_kqueue(P, fd, code, ctx, valid)
      [] OTHER -> poller_add_evport(P, fd, code, ctx, valid)

\* poller_modify of the backend the server was built with.
poller_modify(e, P, fd, code, ctx, valid) ==
    CASE e = "epoll" -> poller_modify_epoll(P, fd, code, ctx, valid)
      [] e = "upoll" -> poller_modify_upoll(P, fd, code, ctx, valid)
      [] e = "kqueue" -> poller_modify_kqueue(P, fd, code, ctx, valid)
      [] OTHER -> poller_modify_evport(P, fd, code, ctx, valid)

\* poller_remove of the backend the server was built with.
poller_remove(e, P, fd, code) ==
    CASE e = "epoll" -> poller_remove_epoll(P, fd, code)
      [] e = "upoll" -> poller_remove_upoll(P, fd, code)
      [] e = "kqueue" -> poller_remove_kqueue(P, fd, code)
      [] OTHER -> poller_remove_evport(P, fd, code)

\* close(fd) in the kernel: epoll, kqueue and event ports drop the
\* registrations of a closed descriptor by themselves; the generic poll
\* backend keeps its own array and map, which close does not touch.
KernelClose(e, r, fd) == IF e = "upoll" THEN r ELSE r \ OfFd(r, fd)

\* --------------------------------------------------------------- worker

POLL_RW == POLL_CODE_READ + POLL_CODE_WRITE

\* A poller as the worker's handlers see it.
Poller(r, cnt) == [reg |-> r, cnt |-> cnt]

\* What a handler leaves: the job, the poller, how it ends ("finish": it
\* calls finish_job), and for the history the cause of a finish, the
\* job_reset calls made and whether a send failed.
Outcome(j, P, next, cause, rs, senderr) ==
    [j |-> j, P |-> Poller(P.reg, P.cnt), next |-> next, cause |-> cause,
     resets |-> rs, senderr |-> senderr]

\* continue_job when job_has_more_write: ask for WRITE events unless that
\* is done already.
continue_job_more(e, j, code, P, ctx, valid, rs) ==
    CASE e \in {"epoll", "upoll"} ->
            IF HasBit(code, POLL_CODE_WRITE)
            THEN Outcome(j, P, "return", "none", rs, FALSE)
            ELSE Outcome(j, poller_modify(e, P, j.socket, POLL_RW, ctx, valid),
                         "return", "none", rs, FALSE)
      [] e = "kqueue" ->
            IF HasBit(j.poll_code, POLL_CODE_WRITE)
            THEN Outcome(j, P, "return", "none", rs, FALSE)
            ELSE Outcome([j EXCEPT !.poll_code = POLL_RW],
                         poller_add(e, P, j.socket, POLL_CODE_WRITE, ctx, valid),
                         "return", "none", rs, FALSE)
      [] OTHER ->
            Outcome(j, poller_add(e, P, j.socket, POLL_RW, ctx, valid),
                    "return", "none", rs, FALSE)

\* continue_job when the response is out: j is the job after job_reset;
\* go back to READ events only.
continue_job_done(e, j, code, P, ctx, valid, rs) ==
    CASE e \in {"epoll", "upoll"} ->
            IF ~HasBit(code, POLL_CODE_WRITE)
            THEN Outcome(j, P, "return", "none", rs, FALSE)
            ELSE Outcome(j, poller_modify(e, P, j.socket, POLL_CODE_READ,
                                          ctx, valid),
                         "return", "none", rs, FALSE)
      [] e = "kqueue" ->
            IF ~HasBit(j.poll_code, POLL_CODE_WRITE)
            THEN Outcome(j, P, "return", "none", rs, FALSE)
            ELSE Outcome([j EXCEPT !.poll_code = POLL_CODE_READ],
                         poller_remove(e, P, j.socket, POLL_CODE_WRITE),
                         "return", "none", rs, FALSE)
      [] OTHER ->
            Outcome(j, poller_add(e, P, j.socket, POLL_CODE_READ, ctx, valid),
                    "return", "none", rs, FALSE)

\* continue_job on the job j of cell ctx, for the event code, against the
\* worker's poller P; rs are the job_reset calls made so far.
continue_job(e, j, code, P, ctx, valid, rs) ==
    IF job_has_more_write(j)
    THEN continue_job_more(e, j, code, P, ctx, valid, rs)
    ELSE continue_job_done(e, job_reset(j), code, P, ctx, valid,
                           rs \o <<ResetNote(j)>>)

\* finish_job on kqueue, the second poller_remove.
finish_job_remove_write(e, j, P) ==
    IF HasBit(j.poll_code, POLL_CODE_WRITE)
    THEN poller_remove(e, P, j.socket, POLL_CODE_WRITE)
    ELSE P

\* The first statements of finish_job: the poller_remove calls.
finish_job_remove(e, j, code, P) ==
    CASE e \in {"epoll", "upoll"} -> poller_remove(e, P, j.socket, code)
      [] e = "kqueue" ->
            IF HasBit(j.poll_code, POLL_CODE_READ)
            THEN finish_job_remove_write(e, j,
                    poller_remove(e, P, j.socket, POLL_CODE_READ))
            ELSE finish_job_remove_write(e, j, P)
      [] OTHER -> P

\* on_event after job_write returned wr.
on_event_written(e, code, P, ctx, valid, wr, rs) ==
    IF wr.ret = -1
    THEN Outcome(wr.j, P, "finish", "write", rs, wr.senderr)
    ELSE continue_job(e, wr.j, code, P, ctx, valid, rs)

\* For the history: why job_read returned -1, the error of the handshake
\* step or a failed or empty recv.
ReadFailNote(rd) == IF rd.hs = "none" THEN "read" ELSE rd.hs

\* For the history: what a job_read that returned 0 without a request did,
\* a handshake step that is still in progress or a recv.
ReturnNote(j) == IF j.ssl /\ ~j.tls_established THEN "handshake" ELSE "empty"

\* on_event after job_read returned rd.
on_event_read(e, code, P, ctx, valid, rd, oh, ob) ==
    IF rd.ret = -1
    THEN Outcome(rd.j, P, "finish", ReadFailNote(rd), rd.resets, FALSE)
    ELSE IF rd.j.state # JOB_STATE_WRITE
    THEN IF e = "evport"
         THEN Outcome(rd.j,
                      poller_add(e, P, rd.j.socket, POLL_CODE_READ, ctx, valid),
                      "return", ReturnNote(rd.j), rd.resets, FALSE)
         ELSE Outcome(rd.j, P, "return", ReturnNote(rd.j), rd.resets, FALSE)
    ELSE on_event_written(e, code, P, ctx, valid, job_write(rd.j, oh, ob),
                          rd.resets)

\* The worker's on_event up to its call of finish_job or its return, for
\* the event code on the job j of cell ctx. ro is what job_read meets, oh
\* and ob what the two sends of job_write meet.
on_event(e, j, code, P, ctx, valid, ro, oh, ob) ==
    IF HasBit(code, POLL_CODE_CLOSE)
    THEN Outcome(j, P, "finish", "close", <<>>, FALSE)
    ELSE IF HasBit(code, POLL_CODE_ERROR)
    THEN Outcome(j, P, "finish", "error", <<>>, FALSE)
    ELSE IF HasBit(code, POLL_CODE_WRITE)
    THEN on_event_written(e, code, P, ctx, valid, job_write(j, oh, ob), <<>>)
    ELSE IF HasBit(code, POLL_CODE_READ)
    THEN on_event_read(e, code, P, ctx, valid, job_read(j, ro), oh, ob)
    ELSE Outcome(j, P, "return", "none", <<>>, FALSE)

\* ------------------------------------------------------- worker actions

\* Every poll code made of READ, WRITE, ERROR and CLOSE.
AllCodes ==
    {c \in 1..(POLL_RW + POLL_CODE_ERROR + POLL_CODE_CLOSE) : c % 8 < 4}

\* The poll codes a backend can hand to on_event for a descriptor whose
\* registered bits are bits: any of them, with or without CLOSE and ERROR.
EventCodes(bits) == {c \in AllCodes : CodeBits(c) \subseteq bits}

\* The flags a kqueue event can carry besides its filter: EV_EOF, EV_ERROR.
KqueueFlags == {0, POLL_CODE_CLOSE, POLL_CODE_ERROR}

\* What recv and the handshake can do for job j; on a descriptor that is
\* not open every call fails.
ReadChoices(j, valid, reqs, errs) ==
    IF ~valid THEN {[hs |-> AcceptSyscall, err |-> TRUE, req |-> NoRequest]}
    ELSE {[hs |-> AcceptDone, err |-> FALSE, req |-> r] :
            r \in reqs \cup {NoRequest}}
         \cup {[hs |-> AcceptDone, err |-> e, req |-> NoRequest] : e \in errs}
         \cup {[hs |-> h, err |-> FALSE, req |-> NoRequest] :
                h \in IF j.ssl /\ ~j.tls_established
                      THEN AcceptOutcomes \ {AcceptDone} ELSE {}}

\* What one send can do; on a descriptor that is not open it fails.
SendChoices(valid, ks, errs) ==
    IF ~valid THEN {[k |-> 0, err |-> TRUE]}
    ELSE {[k |-> n, err |-> e] : n \in ks, e \in errs}

Bump(n) == IF n < 2 THEN n + 1 ELSE n

\* The state after a handler of worker w on cell ctx that left res, with P
\* the poller after the poller_remove calls of finish_job, if it made them.
Handled(w, ctx, res, P) ==
    /\ job' = [job EXCEPT ![ctx] = res.j]
    /\ reg' = [reg EXCEPT ![w] = P.reg]
    /\ item_count' = [item_count EXCEPT ![w] = P.cnt]
    /\ wpc' = [wpc EXCEPT ![w] = IF res.next = "finish"
                                 THEN "fin_close" ELSE "wait"]
    /\ wjob' = [wjob EXCEPT ![w] = IF res.next = "finish" THEN ctx ELSE NULL]
    /\ resets' = [resets EXCEPT ![w] = res.resets]
    /\ wfin' = [wfin EXCEPT ![w] = [cause |-> res.cause,
                                    senderr |-> res.senderr]]

\* A handler that ends in finish_job goes on with its poller_remove calls.
Finishing(w, ctx, code, res) ==
    IF res.next = "finish"
    THEN Handled(w, ctx, res, finish_job_remove(engine, res.j, code, res.P))
    ELSE Handled(w, ctx, res, res.P)

\* on_event for the event code on job j of cell ctx, whose socket is or is
\* not (valid) an open descriptor; the outcomes of recv and send are drawn
\* only where the handler calls them.
Handling(w, ctx, code, j, P, valid, reads, sends, reqs, ks, errs) ==
    \E ro \in IF reads THEN ReadChoices(j, valid, reqs, errs)
              ELSE {[hs |-> AcceptDone, err |-> FALSE, req |-> NoRequest]},
       oh \in IF sends THEN SendChoices(valid, ks, errs)
              ELSE {[k |-> 0, err |-> FALSE]},
       ob \in IF sends THEN SendChoices(valid, ks, errs)
              ELSE {[k |-> 0, err |-> FALSE]} :
        Finishing(w, ctx, code,
                  on_event(engine, j, code, P, ctx, valid, ro, oh, ob))

\* Whether the handler for code ends at once in finish_job.
IsDone(code) ==
    HasBit(code, POLL_CODE_CLOSE) \/ HasBit(code, POLL_CODE_ERROR)

\* One call of the worker's on_event by worker w for the event code on the
\* job of cell ctx, with R and cnt the poller as the backend left it; a
\* handler that calls finish_job stops after the poller_remove calls.
Dispatch(w, ctx, code, R, cnt, reqs, ks, errs) ==
    Handling(w, ctx, code, job[ctx], Poller(R, cnt),
             job[ctx].socket \in open_fds,
             ~IsDone(code) /\ ~HasBit(code, POLL_CODE_WRITE),
             ~IsDone(code), reqs, ks, errs)

\* epoll_wait / poll returns one event for a registered descriptor and the
\* worker's on_event handles it.
WorkerWake(w, codes, reqs, ks, errs) ==
    /\ engine \in {"epoll", "upoll"}
    /\ wpc[w] = "wait"
    /\ \E it \in reg[w] :
        \E code \in EventCodes({x[2] : x \in OfFd(reg[w], it[1])}) \cap codes :
            Dispatch(w, it[3], code, reg[w], item_count[w], reqs, ks, errs)
    /\ UNCHANGED <<poolVars, thrVars, engine, tls, wpend, listenerVars,
                   netVars, n_close, n_return, assign_log, tried, any_fail,
                   lret>>

\* port_getn returns one event: the descriptor is dissociated and
\* item_count decremented before on_event runs.
WorkerWakePort(w, codes, reqs, ks, errs) ==
    /\ engine = "evport"
    /\ wpc[w] = "wait"
    /\ \E it \in reg[w] :
        \E code \in EventCodes({x[2] : x \in OfFd(reg[w], it[1])}) \cap codes :
            Dispatch(w, it[3], code, reg[w] \ OfFd(reg[w], it[1]),
                     item_count[w] - 1, reqs, ks, errs)
    /\ UNCHANGED <<poolVars, thrVars, engine, tls, wpend, listenerVars,
                   netVars, n_close, n_return, assign_log, tried, any_fail,
                   lret>>

\* kevent returns a batch: one event per ready filter, each with the udata
\* given at registration. The first is handled here; the event of the
\* descriptor's other filter, when the batch holds one, waits in wpend.
WorkerWakeKqueue(w, codes, reqs, ks, errs) ==
    /\ engine = "kqueue"
    /\ wpc[w] = "wait"
    /\ wpend[w] = <<>>
    /\ \E it \in reg[w], f \in KqueueFlags :
        /\ it[2] + f \in codes
        /\ \/ wpend' = [wpend EXCEPT ![w] = <<>>]
           \/ \E it2 \in OfFd(reg[w], it[1]), f2 \in KqueueFlags :
                /\ it2[2] # it[2]
                /\ it2[2] + f2 \in codes
                /\ wpend' = [wpend EXCEPT
                                ![w] = <<[code |-> it2[2] + f2, ctx |-> it2[3]]>>]
        /\ Dispatch(w, it[3], it[2] + f, reg[w], item_count[w],
                    reqs, ks, errs)
    /\ UNCHANGED <<poolVars, thrVars, engine, tls, listenerVars,
                   netVars, n_close, n_return, assign_log, tried, any_fail,
                   lret>>

\* The loop over the batch goes on: on_event for the next fetched event.
WorkerNextEvent(w, codes, reqs, ks, errs) ==
    /\ engine = "kqueue"
    /\ wpc[w] = "wait"
    /\ wpend[w] # <<>>
    /\ wpend' = [wpend EXCEPT ![w] = Tail(wpend[w])]
    /\ Dispatch(w, Head(wpend[w]).ctx, Head(wpend[w]).code, reg[w],
                item_count[w], reqs, ks, errs)
    /\ UNCHANGED <<poolVars, thrVars, engine, tls, listenerVars,
                   netVars, n_close, n_return, assign_log, tried, any_fail,
                   lret>>

\* finish_job, second part: job_cleanup, that is connection_close (then
\* connection_cleanup and http_cleanup). A negative socket returns at once;
\* close of a descriptor that is not open never returns 0, so the closing
\* loop spins for ever. The socket of a cell that lies in the pool holds
\* the low half of the free-list pointer: negative or not a descriptor.
WorkerClose(w) ==
    /\ wpc[w] = "fin_close"
    /\ LET c == wjob[w]
           s == job[c].socket
       IN  \/ /\ s = NOSOCK \/ s = LINKWORD
              /\ wpc' = [wpc EXCEPT ![w] = "fin_return"]
              /\ UNCHANGED <<open_fds, reg, n_close>>
           \/ /\ s \in open_fds
              /\ open_fds' = open_fds \ {s}
              /\ reg' = [x \in Workers |-> KernelClose(engine, reg[x], s)]
              /\ n_close' = [n_close EXCEPT ![c] = Bump(@)]
              /\ wpc' = [wpc EXCEPT ![w] = "fin_return"]
           \/ /\ s \notin open_fds
              /\ s # NOSOCK
              /\ n_close' = [n_close EXCEPT ![c] = Bump(@)]
              /\ wpc' = [wpc EXCEPT ![w] = "closing"]
              /\ UNCHANGED <<open_fds, reg>>
    /\ UNCHANGED <<poolVars, thrVars, engine, tls, job, item_count, wjob,
                   wpend, listenerVars, backlog, arrived, lready, n_return,
                   resets, wfin, assign_log, tried, any_fail, lret>>

\* finish_job, last part: manager_return_job, that is objpool_release; the
\* link overwrites the first word of the cell, where connection.socket is.
WorkerReturn(w) ==
    /\ wpc[w] = "fin_return"
    /\ LET c == wjob[w]
       IN  /\ link' = [link EXCEPT ![c] = next_free]
           /\ next_free' = c
           /\ job' = [job EXCEPT ![c].socket = LINKWORD]
           /\ n_return' = [n_return EXCEPT ![c] = Bump(@)]
    /\ wpc' = [wpc EXCEPT ![w] = "wait"]
    /\ wjob' = [wjob EXCEPT ![w] = NULL]
    /\ UNCHANGED <<lock, thrVars, engine, tls, pollVars, wpend, listenerVars,
                   netVars, n_close, resets, wfin, assign_log, tried, any_fail,
                   lret>>

\* ------------------------------------------------------------- listener

\* accept returns the lowest descriptor that is not open.
NextFd == CHOOSE f \in Fds \ open_fds : \A g \in Fds \ open_fds : f <= g

\* A client connects: the connection waits in the listening socket's queue
\* and the edge-triggered poller reports the listening socket readable.
Arrive(cap) ==
    /\ arrived < cap
    /\ arrived' = arrived + 1
    /\ backlog' = backlog + 1
    /\ lready' = TRUE
    /\ UNCHANGED <<poolVars, thrVars, engine, tls, job, pollVars, workerVars,
                   listenerVars, open_fds, histVars>>

\* The listener's poller calls on_event: job_t* _job = _data->next_job.
ListenerWake ==
    /\ lpc = "wait"
    /\ lready
    /\ lready' = FALSE
    /\ lpc' = "loop"
    /\ ljob' = next_job
    /\ lret' = "running"
    /\ UNCHANGED <<poolVars, thrVars, engine, tls, job, pollVars, workerVars,
                   next_job, worker_cycle, lcycle, open_fds, backlog, arrived,
                   histVarsButRet>>

\* The break of the accept loop and the end of on_event:
\* _data->next_job = _job.
ListenerReturn(how) ==
    /\ lpc' = "wait"
    /\ next_job' = ljob
    /\ lret' = how

\* job_setup for a socket accepted into job j.
job_setup(j, fd) ==
    [j EXCEPT !.socket = fd, !.ssl = tls]

\* One turn of the loop with a job in hand: accept_conn up to its
\* round-robin loop. server_accept fails with EAGAIN on an empty queue and
\* can fail with another error on a connection that waits (ECONNABORTED:
\* that connection leaves the queue); job_setup can fail on the accepted
\* socket. Both failures run job_cleanup and end the loop.
ListenerAccept(fails) ==
    /\ lpc = "loop"
    /\ ljob # NULL
    /\ \/ /\ backlog = 0
          /\ job' = [job EXCEPT ![ljob] = job_init]
          /\ ListenerReturn("eagain")
          /\ UNCHANGED <<open_fds, backlog, n_close, lcycle, tried>>
       \/ /\ backlog > 0
          /\ TRUE \in fails
          /\ job' = [job EXCEPT ![ljob] = job_init]
          /\ backlog' = backlog - 1
          /\ ListenerReturn("accept")
          /\ UNCHANGED <<open_fds, n_close, lcycle, tried>>
       \/ /\ backlog > 0
          /\ TRUE \in fails
          /\ Fds \ open_fds # {}
          /\ job' = [job EXCEPT ![ljob] = job_setup(job_init, NextFd)]
          /\ backlog' = backlog - 1
          /\ n_close' = [n_close EXCEPT ![ljob] = 1]
          /\ ListenerReturn("setup")
          /\ UNCHANGED <<open_fds, lcycle, tried>>
       \/ /\ backlog > 0
          /\ Fds \ open_fds # {}
          /\ job' = [job EXCEPT ![ljob] = job_setup(job_init, NextFd)]
          /\ open_fds' = open_fds \cup {NextFd}
          /\ backlog' = backlog - 1
          /\ n_close' = [n_close EXCEPT ![ljob] = 0]
          /\ lcycle' = worker_cycle
          /\ tried' = <<>>
          /\ lpc' = "assign"
          /\ UNCHANGED <<next_job, lret>>
    /\ UNCHANGED <<poolVars, thrVars, engine, tls, pollVars, workerVars,
                   ljob, worker_cycle, arrived, lready, n_return, resets,
                   wfin, assign_log, any_fail>>

\* worker_assign: poll_code is kept on kqueue builds only.
worker_assign_job(e, j) ==
    IF e = "kqueue" THEN [j EXCEPT !.poll_code = POLL_CODE_READ] ELSE j

\* A round-robin turn that forgets to store the cursor.
ListenerAssignNoStore ==
    /\ lpc = "assign"
    /\ LET w == lcycle
           a == poller_add(engine, [reg |-> reg[w], cnt |-> item_count[w]],
                           job[ljob].socket, POLL_CODE_READ, ljob,
                           job[ljob].socket \in open_fds)
       IN  /\ job' = [job EXCEPT ![ljob] = worker_assign_job(engine, @)]
           /\ lcycle' = (lcycle + 1) % worker_count
           /\ reg' = [reg EXCEPT ![w] = a.reg]
           /\ item_count' = [item_count EXCEPT ![w] = a.cnt]
           /\ tried' = IF Len(tried) < MaxTries THEN Append(tried, w) ELSE tried
           /\ any_fail' = (any_fail \/ ~a.ok)
           /\ IF a.ok
              THEN /\ assign_log' = Append(assign_log, w)
                   /\ lpc' = "refill"
                   /\ UNCHANGED worker_cycle
              ELSE UNCHANGED <<worker_cycle, assign_log, lpc>>
    /\ UNCHANGED <<poolVars, thrVars, engine, tls, workerVars, next_job, ljob,
                   netVars, n_close, n_return, resets, wfin, lret>>

\* One turn of accept_conn's round-robin loop: take the worker at _cycle,
\* advance _cycle, try worker_assign; on success store the cursor.
ListenerAssign ==
    /\ lpc = "assign"
    /\ LET w == lcycle
           a == poller_add(engine, [reg |-> reg[w], cnt |-> item_count[w]],
                           job[ljob].socket, POLL_CODE_READ, ljob,
                           job[ljob].socket \in open_fds)
       IN  /\ job' = [job EXCEPT ![ljob] = worker_assign_job(engine, @)]
           /\ lcycle' = (lcycle + 1) % worker_count
           /\ reg' = [reg EXCEPT ![w] = a.reg]
           /\ item_count' = [item_count EXCEPT ![w] = a.cnt]
           /\ tried' = IF Len(tried) < MaxTries THEN Append(tried, w) ELSE tried
           /\ any_fail' = (any_fail \/ ~a.ok)
           /\ IF a.ok
              THEN /\ worker_cycle' = (lcycle + 1) % worker_count
                   /\ assign_log' = Append(assign_log, w)
                   /\ lpc' = "refill"
              ELSE UNCHANGED <<worker_cycle, assign_log, lpc>>
    /\ UNCHANGED <<poolVars, thrVars, engine, tls, workerVars, next_job, ljob,
                   netVars, n_close, n_return, resets, wfin, lret>>

\* _job = manager_get_job(...) after an accepted or a rejected connection:
\* objpool_acquire.
ListenerRefill ==
    /\ lpc = "refill"
    /\ ljob' = next_free
    /\ next_free' = IF next_free # NULL THEN link[next_free] ELSE next_free
    /\ n_return' = IF next_free # NULL
                   THEN [n_return EXCEPT ![next_free] = 0] ELSE n_return
    /\ lpc' = "loop"
    /\ UNCHANGED <<link, lock, thrVars, engine, tls, job, pollVars, workerVars,
                   next_job, worker_cycle, lcycle, netVars, n_close, resets,
                   wfin, assign_log, tried, any_fail, lret>>

\* One turn of the loop without a job: reject_conn accepts the connection
\* and closes it at once.
ListenerReject(fails) ==
    /\ lpc = "loop"
    /\ ljob = NULL
    /\ \/ /\ backlog = 0
          /\ ListenerReturn("eagain")
          /\ UNCHANGED backlog
       \/ /\ backlog > 0
          /\ TRUE \in fails
          /\ backlog' = backlog - 1
          /\ ListenerReturn("accept")
       \/ /\ backlog > 0
          /\ backlog' = backlog - 1
          /\ lpc' = "refill"
          /\ UNCHANGED <<next_job, lret>>
    /\ UNCHANGED <<poolVars, thrVars, engine, tls, job, pollVars, workerVars,
                   ljob, worker_cycle, lcycle, open_fds, arrived, lready,
                   histVarsButRet>>

\* ------------------------------------------------------- specifications

\* A cell that was never used holds no job: only the free-list link.
FreshCell == [job_init EXCEPT !.socket = LINKWORD]

\* The workers and the listener after setup, before any connection.
InitIdle ==
    /\ job = [c \in Cells |-> FreshCell]
    /\ reg = [w \in Workers |-> {}]
    /\ item_count = [w \in Workers |-> 0]
    /\ open_fds = {}
    /\ backlog = 0
    /\ arrived = 0
    /\ lready = FALSE
    /\ wpc = [w \in Workers |-> "wait"]
    /\ wjob = [w \in Workers |-> NULL]
    /\ wpend = [w \in Workers |-> <<>>]
    /\ lpc = "wait"
    /\ ljob = NULL
    /\ worker_cycle = 0
    /\ lcycle = 0
    /\ n_close = [c \in Cells |-> 0]
    /\ n_return = [c \in Cells |-> 0]
    /\ resets = [w \in Workers |-> <<>>]
    /\ wfin = [w \in Workers |-> [cause |-> "none", senderr |-> FALSE]]
    /\ assign_log = <<>>
    /\ tried = <<>>
    /\ any_fail = FALSE
    /\ lret = "none"

\* SpecPool: the pool alone, as objpool_allocate leaves it.
InitPool ==
    /\ InitPoolState
    /\ InitThreads
    /\ engine = "epoll"
    /\ tls = FALSE
    /\ next_job = NULL
    /\ InitIdle

NextPool ==
    \E t \in Threads :
        \/ objpool_acquire_lock(t)
        \/ objpool_acquire_read(t)
        \/ objpool_acquire_pop(t)
        \/ objpool_acquire_unlock(t)
        \/ \E c \in Cells : objpool_release_lock(t, c)
        \/ objpool_release_link(t)
        \/ objpool_release_push(t)
        \/ objpool_release_unlock(t)

SpecPool == InitPool /\ [][NextPool]_vars

\* Spec: the server after listener_init, which takes the first job of the
\* pool as next_job; built with any of the four backends, without TLS.
\* MaxArrive connections cannot empty the pool, so the listener always has
\* a job in hand and never comes to reject_conn.
Init ==
    /\ engine \in Engines
    /\ tls = FALSE
    /\ link = objpool_allocate_link
    /\ next_free = link[objpool_allocate_head]
    /\ lock = NULL
    /\ InitThreads
    /\ next_job = objpool_allocate_head
    /\ InitIdle

\* The number of bytes a send can take in SpecJob: none, one, or all that
\* is left.
JobSends == {0, 1, FileLen}

\* Spec keeps to one request, a GET of a file that exists, and to sends
\* that take all that is left or all but the last byte of the file.
SpecRequests == {r \in Requests : r.method = "GET" /\ r.found /\ r.size > 0}

SpecSends == {FileLen - 1, FileLen}

Next ==
    \/ Arrive(MaxArrive)
    \/ ListenerWake
    \/ ListenerAccept(BOOLEAN)
    \/ ListenerAssign
    \/ ListenerRefill
    \/ \E w \in Workers :
        \/ WorkerWake(w, AllCodes, SpecRequests, SpecSends, {FALSE})
        \/ WorkerWakePort(w, AllCodes, SpecRequests, SpecSends, {FALSE})
        \/ WorkerWakeKqueue(w, AllCodes, SpecRequests, SpecSends, {FALSE})
        \/ WorkerNextEvent(w, AllCodes, SpecRequests, SpecSends, {FALSE})
        \/ WorkerClose(w)
        \/ WorkerReturn(w)

Spec == Init /\ [][Next]_vars

\* SpecAccept: the same server watched at its listener: enough connections
\* arrive to empty the pool, and the only event a worker gets is the
\* peer's close.
CloseCodes == {c \in AllCodes : HasBit(c, POLL_CODE_CLOSE)}

NextAccept ==
    \/ Arrive(MaxArrive + 2)
    \/ ListenerWake
    \/ ListenerAccept(BOOLEAN)
    \/ ListenerAssign
    \/ ListenerRefill
    \/ ListenerReject(BOOLEAN)
    \/ \E w \in Workers :
        \/ WorkerWake(w, CloseCodes, {}, {}, {})
        \/ WorkerWakePort(w, CloseCodes, {}, {}, {})
        \/ WorkerWakeKqueue(w, CloseCodes, {}, {}, {})
        \/ WorkerClose(w)
        \/ WorkerReturn(w)

SpecAccept == Init /\ [][NextAccept]_vars

\* SpecJob: one connection, accepted into the first job and assigned to
\* worker 0, with or without TLS; every request, event and outcome.
InitJob ==
    /\ engine \in Engines
    /\ tls \in BOOLEAN
    /\ link = objpool_allocate_link
    /\ next_free = link[link[objpool_allocate_head]]
    /\ lock = NULL
    /\ InitThreads
    /\ next_job = link[objpool_allocate_head]
    /\ job = [c \in Cells |->
                IF c = objpool_allocate_head
                THEN worker_assign_job(engine,
                        [job_init EXCEPT !.socket = 1, !.ssl = tls])
                ELSE FreshCell]
    /\ reg = [w \in Workers |->
                IF w = 0
                THEN Items(1, POLL_CODE_READ, objpool_allocate_head) ELSE {}]
    /\ item_count = [w \in Workers |-> IF w = 0 THEN 1 ELSE 0]
    /\ open_fds = {1}
    /\ backlog = 0
    /\ arrived = 1
    /\ lready = FALSE
    /\ wpc = [w \in Workers |-> "wait"]
    /\ wjob = [w \in Workers |-> NULL]
    /\ wpend = [w \in Workers |-> <<>>]
    /\ lpc = "wait"
    /\ ljob = NULL
    /\ worker_cycle = 1 % worker_count
    /\ lcycle = 1 % worker_count
    /\ n_close = [c \in Cells |-> 0]
    /\ n_return = [c \in Cells |-> 0]
    /\ resets = [w \in Workers |-> <<>>]
    /\ wfin = [w \in Workers |-> [cause |-> "none", senderr |-> FALSE]]
    /\ assign_log = <<0>>
    /\ tried = <<0>>
    /\ any_fail = FALSE
    /\ lret = "eagain"

NextJob ==
    \E w \in Workers :
        \/ WorkerWake(w, AllCodes, Requests, JobSends, BOOLEAN)
        \/ WorkerWakePort(w, AllCodes, Requests, JobSends, BOOLEAN)
        \/ WorkerWakeKqueue(w, AllCodes, Requests, JobSends, BOOLEAN)
        \/ WorkerNextEvent(w, AllCodes, Requests, JobSends, BOOLEAN)
        \/ WorkerClose(w)
        \/ WorkerReturn(w)

SpecJob == InitJob /\ [][NextJob]_vars

\* SpecReject: the server when all jobs but the listener's next job are with
\* the workers: max_job - 1 connections have been accepted, the i-th into
\* cell i with descriptor i and assigned to worker (i - 1) mod worker_count.
\* The generic poll backend is left out: its pollers are full before the
\* pool is empty.
Busy == 1..(max_job - 1)

WorkerOf(c) == (c - 1) % worker_count

InitReject ==
    /\ engine \in Engines \ {"upoll"}
    /\ tls = FALSE
    /\ link = objpool_allocate_link
    /\ next_free = NULL
    /\ lock = NULL
    /\ InitThreads
    /\ next_job = max_job
    /\ job = [c \in Cells |->
                IF c \in Busy
                THEN worker_assign_job(engine, job_setup(job_init, c))
                ELSE FreshCell]
    /\ reg = [w \in Workers |->
                UNION {Items(c, POLL_CODE_READ, c) :
                        c \in {b \in Busy : WorkerOf(b) = w}}]
    /\ item_count = [w \in Workers |->
                        Cardinality({b \in Busy : WorkerOf(b) = w})]
    /\ open_fds = Busy
    /\ backlog = 0
    /\ arrived = max_job - 1
    /\ lready = FALSE
    /\ wpc = [w \in Workers |-> "wait"]
    /\ wjob = [w \in Workers |-> NULL]
    /\ wpend = [w \in Workers |-> <<>>]
    /\ lpc = "wait"
    /\ ljob = NULL
    /\ worker_cycle = (max_job - 1) % worker_count
    /\ lcycle = (max_job - 1) % worker_count
    /\ n_close = [c \in Cells |-> 0]
    /\ n_return = [c \in Cells |-> 0]
    /\ resets = [w \in Workers |-> <<>>]
    /\ wfin = [w \in Workers |-> [cause |-> "none", senderr |-> FALSE]]
    /\ assign_log = [i \in Busy |-> WorkerOf(i)]
    /\ tried = <<WorkerOf(max_job - 1)>>
    /\ any_fail = FALSE
    /\ lret = "eagain"

NextReject ==
    \/ Arrive(max_job + 1)
    \/ ListenerWake
    \/ ListenerAccept({FALSE})
    \/ ListenerAssign
    \/ ListenerRefill
    \/ ListenerReject({FALSE})
    \/ \E w \in Workers :
        \/ WorkerWake(w, CloseCodes, {}, {}, {})
        \/ WorkerWakePort(w, CloseCodes, {}, {}, {})
        \/ WorkerWakeKqueue(w, CloseCodes, {}, {}, {})
        \/ WorkerClose(w)
        \/ WorkerReturn(w)

SpecReject == InitReject /\ [][NextReject]_vars

\* -------------------------------------------------- the poller thread

\* Cap on the on_event calls counted in SpecThread.
MaxDispatch == 2

callerVars == <<tpc, tnode, held, n_acquired, n_released>>

\* What the steps of the poller thread leave alone.
ptOthers == <<poolVars, callerVars, stopVars, callVars, engineVars>>

\* thread_cleanup starts with close() of the kernel object, except in the
\* generic poll backend, which has none.
CleanupEntry == IF engine = "upoll" THEN "cl_stop" ELSE "cl_close"

\* The positions at which the thread is inside a cancellation point:
\* pthread_testcancel, the wait call, the close() calls of thread_routine
\* and thread_cleanup, and the callback (recv, send, accept, close).
CancelPoints == {"testcancel", "wait", "callback", "noev_close", "cl_close"}

\* poller_stop: pthread_cancel. With the default deferred type the request
\* stays pending until the thread comes to a cancellation point; it has no
\* effect on a thread that has ended or is being cancelled.
poller_stop ==
    /\ pt_pc \notin {"idle", "exited"}
    /\ pt_cancel = "none"
    /\ pt_cancel' = "pending"
    /\ UNCHANGED <<pt_cfg, pt_pc, pt_pushed, pt_left, n_on_stop, n_dispatch,
                   ev_after_stop, ptOthers>>

\* The thread acts on the pending request at a cancellation point: the
\* handlers on the cleanup stack run and the thread ends.
ThreadCancelled ==
    /\ pt_cancel = "pending"
    /\ pt_pc \in CancelPoints
    /\ pt_cancel' = "acted"
    /\ pt_pushed' = FALSE
    /\ pt_pc' = IF pt_pushed THEN CleanupEntry ELSE "exited"
    /\ UNCHANGED <<pt_cfg, pt_left, n_on_stop, n_dispatch, ev_after_stop,
                   ptOthers>>

\* thread_routine, entry: without on_event the thread closes the kernel
\* object, calls on_stop and returns; else it pushes thread_cleanup and
\* enters the loop.
ThreadStart ==
    /\ pt_pc = "start"
    /\ IF pt_cfg.on_event
       THEN pt_pushed' = TRUE /\ pt_pc' = "testcancel"
       ELSE /\ pt_pc' = IF engine = "upoll" THEN "noev_stop" ELSE "noev_close"
            /\ UNCHANGED pt_pushed
    /\ UNCHANGED <<pt_cfg, pt_cancel, pt_left, n_on_stop, n_dispatch,
                   ev_after_stop, ptOthers>>

\* close() returns (no request was pending when it was entered).
ThreadClose ==
    /\ pt_pc \in {"noev_close", "cl_close"}
    /\ pt_cancel # "pending"
    /\ pt_pc' = IF pt_pc = "noev_close" THEN "noev_stop" ELSE "cl_stop"
    /\ UNCHANGED <<pt_cfg, pt_cancel, pt_pushed, pt_left, n_on_stop,
                   n_dispatch, ev_after_stop, ptOthers>>

\* if (_data->on_stop) _data->on_stop(_poller); and the thread ends.
ThreadOnStop ==
    /\ pt_pc \in {"noev_stop", "cl_stop"}
    /\ n_on_stop' = IF pt_cfg.on_stop THEN n_on_stop + 1 ELSE n_on_stop
    /\ pt_pc' = "exited"
    /\ UNCHANGED <<pt_cfg, pt_cancel, pt_pushed, pt_left, n_dispatch,
                   ev_after_stop, ptOthers>>

\* pthread_testcancel() with no request pending.
ThreadTestCancel ==
    /\ pt_pc = "testcancel"
    /\ pt_cancel # "pending"
    /\ pt_pc' = "wait"
    /\ UNCHANGED <<pt_cfg, pt_cancel, pt_pushed, pt_left, n_on_stop,
                   n_dispatch, ev_after_stop, ptOthers>>

\* The wait call returns: n events (0: timeout), EINTR, or a fatal error,
\* after which the loop ends and pthread_cleanup_pop(1) follows.
ThreadWait ==
    /\ pt_pc = "wait"
    /\ pt_cancel # "pending"
    /\ \/ \E n \in 0..2 : pt_left' = n /\ pt_pc' = "dispatch"
       \/ pt_pc' = "testcancel" /\ UNCHANGED pt_left
       \/ pt_pc' = "pop" /\ UNCHANGED pt_left
    /\ UNCHANGED <<pt_cfg, pt_cancel, pt_pushed, n_on_stop, n_dispatch,
                   ev_after_stop, ptOthers>>

\* The loop over the fetched events: on_event is called for the next one.
ThreadDispatch ==
    /\ pt_pc = "dispatch"
    /\ IF pt_left > 0
       THEN /\ n_dispatch < MaxDispatch
            /\ pt_left' = pt_left - 1
            /\ n_dispatch' = n_dispatch + 1
            /\ ev_after_stop' = (ev_after_stop \/ n_on_stop > 0)
            /\ pt_pc' = "callback"
       ELSE /\ pt_pc' = "testcancel"
            /\ UNCHANGED <<pt_left, n_dispatch, ev_after_stop>>
    /\ UNCHANGED <<pt_cfg, pt_cancel, pt_pushed, n_on_stop, ptOthers>>

\* on_event returns.
ThreadCallback ==
    /\ pt_pc = "callback"
    /\ pt_pc' = "dispatch"
    /\ UNCHANGED <<pt_cfg, pt_cancel, pt_pushed, pt_left, n_on_stop,
                   n_dispatch, ev_after_stop, ptOthers>>

\* pthread_cleanup_pop(1): the handler is taken off the stack, then run.
ThreadPop ==
    /\ pt_pc = "pop"
    /\ pt_pushed' = FALSE
    /\ pt_pc' = CleanupEntry
    /\ UNCHANGED <<pt_cfg, pt_cancel, pt_left, n_on_stop, n_dispatch,
                   ev_after_stop, ptOthers>>

\* SpecThread: one poller of any backend, with or without on_event and
\* on_stop, after poller_run.
InitThread ==
    /\ engine \in Engines
    /\ tls = FALSE
    /\ InitPoolState
    /\ InitCallers
    /\ InitRunning
    /\ InitNoCall
    /\ next_job = NULL
    /\ InitIdle
    /\ pt_cfg \in [on_event : BOOLEAN, on_stop : BOOLEAN]
    /\ pt_pc = "start"
    /\ pt_cancel = "none"
    /\ pt_pushed = FALSE
    /\ pt_left = 0
    /\ n_on_stop = 0
    /\ n_dispatch = 0
    /\ ev_after_stop = FALSE

NextThread ==
    \/ poller_stop
    \/ ThreadCancelled
    \/ ThreadStart
    \/ ThreadClose
    \/ ThreadOnStop
    \/ ThreadTestCancel
    \/ ThreadWait
    \/ ThreadDispatch
    \/ ThreadCallback
    \/ ThreadPop

SpecThread == InitThread /\ [][NextThread]_vars

\* ------------------------------------------------------------- shutdown

\* SIGINT (orchestrator): listener_stop, that is pthread_cancel of the
\* listener's poller thread.
StopListener ==
    /\ opc = "serve"
    /\ lcancel' = (lth = "run")
    /\ opc' = "stop_workers"
    /\ UNCHANGED <<poolVars, callerVars, ptVars, callVars,
                   wth, wcancel, lth,
                   engineVars>>

\* SIGINT, continued: worker_stop for each worker.
StopWorkers ==
    /\ opc = "stop_workers"
    /\ wcancel' = [w \in Workers |-> wth[w] = "run"]
    /\ opc' = "wait_listener"
    /\ UNCHANGED <<poolVars, callerVars, ptVars, callVars,
                   wth, lth, lcancel,
                   engineVars>>

\* The listener's thread acts on the request at a cancellation point:
\* pthread_testcancel and the wait call (lpc = "wait"), or accept() at the
\* head of a loop turn inside on_event. thread_cleanup runs; the rest of
\* on_event does not.
ListenerCancelled ==
    /\ lth = "run"
    /\ lcancel
    /\ lpc \in {"wait", "loop"}
    /\ lth' = "exited"
    /\ lcancel' = FALSE
    /\ UNCHANGED <<poolVars, callerVars, ptVars, callVars,
                   wth, wcancel, opc,
                   engineVars>>

\* A worker's thread acts on the request at a cancellation point: the wait
\* call between two batches, or recv() / close() in connection_close. The
\* worker's poller has no on_stop, so nothing else runs.
WorkerCancelled(w) ==
    /\ wth[w] = "run"
    /\ wcancel[w]
    /\ \/ wpc[w] = "wait" /\ wpend[w] = <<>>
       \/ wpc[w] \in {"fin_close", "closing"}
    /\ wth' = [wth EXCEPT ![w] = "exited"]
    /\ wcancel' = [wcancel EXCEPT ![w] = FALSE]
    /\ UNCHANGED <<poolVars, callerVars, ptVars, callVars,
                   lth, lcancel, opc,
                   engineVars>>

\* The steps of the listener's running thread; those that begin at a
\* cancellation point need no request pending.
ListenerThread ==
    /\ lth = "run"
    /\ \/ ~lcancel /\ ListenerWake
       \/ ~lcancel /\ ListenerAccept({FALSE})
       \/ ListenerAssign
       \/ ListenerRefill

\* The steps of a worker's running thread after the wait call.
WorkerThread(w) ==
    /\ wth[w] = "run"
    /\ \/ ~wcancel[w] /\ WorkerClose(w)
       \/ WorkerReturn(w)

\* The wait call of a worker's running thread returns events.
WorkerEvents(w) ==
    /\ wth[w] = "run"
    /\ ~wcancel[w]
    /\ \/ WorkerWake(w, CloseCodes, {}, {}, {})
       \/ WorkerWakePort(w, CloseCodes, {}, {}, {})
       \/ WorkerWakeKqueue(w, CloseCodes, {}, {}, {})

\* Orchestrator: listener_wait has returned; listener_cleanup gives the
\* listener's next job back to the pool.
ListenerCleanup ==
    /\ opc = "wait_listener"
    /\ lth = "exited"
    /\ opc' = "wait_workers"
    /\ IF next_job # NULL
       THEN /\ link' = [link EXCEPT ![next_job] = next_free]
            /\ next_free' = next_job
            /\ job' = [job EXCEPT ![next_job].socket = LINKWORD]
            /\ UNCHANGED next_job
       ELSE UNCHANGED <<link, next_free, job, next_job>>
    /\ UNCHANGED <<lock, callerVars, ptVars, callVars, wth, wcancel, lth,
                   lcancel,
                   engine, tls, pollVars, workerVars, lpc, ljob, worker_cycle,
                   lcycle, netVars, histVars>>

\* Orchestrator: every worker_wait has returned; worker_cleanup frees the
\* poller's and the worker's memory.
WorkersCleanup ==
    /\ opc = "wait_workers"
    /\ \A w \in Workers : wth[w] = "exited"
    /\ opc' = "done"
    /\ UNCHANGED <<poolVars, callerVars, ptVars, callVars,
                   wth, wcancel, lth, lcancel,
                   engineVars>>

NextStop ==
    \/ Arrive(MaxArrive + 1)
    \/ StopListener
    \/ StopWorkers
    \/ ListenerThread
    \/ ListenerCancelled
    \/ ListenerCleanup
    \/ WorkersCleanup
    \/ \E w \in Workers :
        \/ WorkerEvents(w)
        \/ WorkerThread(w)
        \/ WorkerCancelled(w)

\* SpecStop: the server of Spec with SIGINT at any moment.
SpecStop == Init /\ [][NextStop]_vars

\* SpecStopFair: a running thread goes on, and the orchestrator too; the
\* clients owe nothing (no fairness on arrivals and events).
SpecStopFair ==
    /\ SpecStop
    /\ WF_vars(ListenerThread)
    /\ WF_vars(ListenerCancelled)
    /\ WF_vars(StopWorkers)
    /\ \A w \in Workers : WF_vars(WorkerThread(w)) /\ WF_vars(WorkerCancelled(w))

\* ----------------------------------------------------------------- path

\* Bytes are their ASCII codes; a C string is the sequence of its bytes
\* without the terminating NUL.
MaxTarget == 5

\* The bytes a request target is drawn from: / . d x % 2 e 0 ?
TargetBytes == {47, 46, 100, 120, 37, 50, 101, 48, 63}

SeqsUpTo(S, n) == UNION {[1..k -> S] : k \in 0..n}

\* What a function returns in place of a string when it fails.
FAIL == <<-1>>

\* The bytes of a buffer up to its first NUL.
RECURSIVE CStr(_)
CStr(buf) ==
    IF buf = <<>> \/ Head(buf) = 0 THEN <<>>
    ELSE <<Head(buf)>> \o CStr(Tail(buf))

hex2int(c) ==
    IF c \in 48..57 THEN c - 48
    ELSE IF c \in 97..102 THEN c - 97 + 10
    ELSE IF c \in 65..70 THEN c - 65 + 10
    ELSE -1

\* The loop of decode_url from position i (1-based) with the bytes written
\* so far.
RECURSIVE decode_from(_, _, _)
decode_from(url, i, out) ==
    IF i > Len(url) THEN out
    ELSE IF url[i] = 43 THEN decode_from(url, i + 1, Append(out, 32))
    ELSE IF url[i] # 37 THEN decode_from(url, i + 1, Append(out, url[i]))
    ELSE IF i + 2 > Len(url) THEN FAIL
    ELSE IF hex2int(url[i + 1]) = -1 \/ hex2int(url[i + 2]) = -1 THEN FAIL
    ELSE decode_from(url, i + 3,
                     Append(out, hex2int(url[i + 1]) * 16 + hex2int(url[i + 2])))

\* decode_url: the decoded bytes (its return value is their number; a
\* decoded NUL ends the C string early), or FAIL.
decode_url(url) == decode_from(url, 1, <<>>)

\* The names of a path: its parts between slashes, empty parts dropped.
RECURSIVE Split(_, _)
Split(path, cur) ==
    IF path = <<>> THEN (IF cur = <<>> THEN <<>> ELSE <<cur>>)
    ELSE IF Head(path) = 47
         THEN (IF cur = <<>> THEN <<>> ELSE <<cur>>) \o Split(Tail(path), <<>>)
         ELSE Split(Tail(path), Append(cur, Head(path)))

RECURSIVE Join(_)
Join(names) ==
    IF names = <<>> THEN <<>> ELSE <<47>> \o Head(names) \o Join(Tail(names))

INDEX_HTML == <<105, 110, 100, 101, 120, 46, 104, 116, 109, 108>>

\* The configured root, already made absolute by config: "/r".
ROOT == <<47, 114>>

\* The file system: the root /r with index.html, a file x, a directory d
\* and a symbolic link e to /s; beside the root a file /rx and a file /s.
\* /r/d/index.html is a file, a symbolic link to /s, or missing.
FileSystem(index) ==
    LET r == <<114>>  d == <<100>>  x == <<120>>  e == <<101>>
        dir == [kind |-> "dir", to |-> <<>>]
        file == [kind |-> "file", to |-> <<>>]
        outside == <<<<115>>>>
        base == (<<>> :> dir) @@ (<<r>> :> dir) @@ (<<r, d>> :> dir)
                @@ (<<r, INDEX_HTML>> :> file) @@ (<<r, x>> :> file)
                @@ (<<r, e>> :> [kind |-> "link", to |-> outside])
                @@ (<<<<114, 120>>>> :> file) @@ (outside :> file)
    IN  CASE index = "file" -> base @@ (<<r, d, INDEX_HTML>> :> file)
          [] index = "link" ->
                base @@ (<<r, d, INDEX_HTML>> :> [kind |-> "link", to |-> outside])
          [] OTHER -> base

Kind(fs, names) == IF names \in DOMAIN fs THEN fs[names].kind ELSE "none"

\* The walk of realpath(3) from the resolved directory cur over the names
\* left; with missing_ok a last name that does not exist is kept as it is.
\* What the walk gives in place of the resolved names when it fails.
NOTFOUND == <<FAIL>>

RECURSIVE walk(_, _, _, _)
walk(fs, cur, names, missing_ok) ==
    IF names = <<>> THEN cur
    ELSE IF Kind(fs, cur) # "dir" THEN NOTFOUND
    ELSE IF Head(names) = <<46>> THEN walk(fs, cur, Tail(names), missing_ok)
    ELSE IF Head(names) = <<46, 46>>
         THEN walk(fs, IF cur = <<>> THEN cur ELSE SubSeq(cur, 1, Len(cur) - 1),
                   Tail(names), missing_ok)
    ELSE LET nxt == Append(cur, Head(names))
         IN  CASE Kind(fs, nxt) = "link" ->
                    walk(fs, fs[nxt].to, Tail(names), missing_ok)
               [] Kind(fs, nxt) = "none" ->
                    IF missing_ok /\ Tail(names) = <<>> THEN nxt ELSE NOTFOUND
               [] OTHER -> walk(fs, nxt, Tail(names), missing_ok)

\* realpath(3) of an absolute path: the resolved names, or NOTFOUND.
realpath_names(fs, path, missing_ok) ==
    IF path = <<>> \/ Head(path) # 47 THEN NOTFOUND
    ELSE LET res == walk(fs, <<>>, Split(path, <<>>), missing_ok)
         IN  IF res # NOTFOUND /\ path[Len(path)] = 47 /\ Kind(fs, res) # "dir"
             THEN NOTFOUND
             ELSE res

realpath(fs, path) ==
    LET res == realpath_names(fs, path, FALSE)
    IN  IF res = NOTFOUND THEN FAIL ELSE IF res = <<>> THEN <<47>> ELSE Join(res)

\* strncmp(_resolved, root, root_length) = 0 and the byte after is '/' or
\* the end.
UnderRoot(resolved, root) ==
    /\ Len(resolved) >= Len(root)
    /\ SubSeq(resolved, 1, Len(root)) = root
    /\ (Len(resolved) = Len(root) \/ resolved[Len(root) + 1] = 47)

check_path(fs, path, root) ==
    LET _resolved == realpath(fs, path)
    IN  _resolved # FAIL /\ UnderRoot(_resolved, root)

\* The target up to its first '?'.
RECURSIVE BeforeQuery(_)
BeforeQuery(target) ==
    IF target = <<>> \/ Head(target) = 63 THEN <<>>
    ELSE <<Head(target)>> \o BeforeQuery(Tail(target))

PathResult(r, path) == [done |-> TRUE, ret |-> r, path |-> path]

\* message_resolve_path, after the decoding: buf is what decode_url left in
\* the buffer. The buffer (PATH_BUFFER_SIZE) is larger than any path here.
resolve_decoded(fs, root, buf) ==
    LET path == IF Len(buf) <= 0 \/ buf[Len(buf)] = 47
                THEN CStr(buf) \o INDEX_HTML
                ELSE CStr(buf)
    IN  IF ~check_path(fs, path, root) THEN PathResult(-1, path)
        ELSE IF Kind(fs, realpath_names(fs, path, FALSE)) = "file"
             THEN PathResult(0, path)
             ELSE PathResult(0, path \o <<47>> \o INDEX_HTML)

message_resolve_path(fs, target, root) ==
    LET buf == decode_url(root \o BeforeQuery(target))
    IN  IF buf = FAIL THEN PathResult(-1, <<>>)
        ELSE resolve_decoded(fs, root, buf)

\* The fully resolved form of a path whose last name may be missing.
Absolute(fs, path) ==
    LET res == realpath_names(fs, path, TRUE)
    IN  IF res = NOTFOUND THEN FAIL ELSE IF res = <<>> THEN <<47>> ELSE Join(res)

InitPath ==
    /\ engine = "epoll"
    /\ tls = FALSE
    /\ InitPoolState
    /\ InitCallers
    /\ InitPollerIdle
    /\ InitRunning
    /\ next_job = NULL
    /\ InitIdle
    /\ call_arg \in [target : SeqsUpTo(TargetBytes, MaxTarget),
                     index : {"file", "link", "none"}]
    /\ call_ret = [done |-> FALSE, ret |-> 0, path |-> <<>>]

ResolvePath ==
    /\ ~call_ret.done
    /\ call_ret' = message_resolve_path(FileSystem(call_arg.index),
                                        call_arg.target, ROOT)
    /\ UNCHANGED <<poolVars, callerVars, ptVars, stopVars, call_arg,
                   engineVars>>

\* SpecPath: message_resolve_path on every target of the bound.
SpecPath == InitPath /\ [][ResolvePath]_vars

\* ---------------------------------------------------------------- parse

MaxBuf == 6

MaxHeaderLines == 130

HEADER_BUFFER_SIZE == 128

\* The bytes a short request is drawn from: space CR LF NUL ':' 'a'
ParseBytes == {32, 13, 10, 0, 58, 97}

\* request[c] for a cursor c counted from 0; connection_receive has put a
\* NUL at request[length].
At(b, c) == IF c < Len(b) THEN b[c + 1] ELSE 0

\* for (; _cursor < length; _cursor++) if (match(request[_cursor], ...)) break;
RECURSIVE scan(_, _, _)
scan(b, c, stops) ==
    IF c < Len(b) /\ At(b, c) \notin stops THEN scan(b, c + 1, stops) ELSE c

Slice(_prev, _cursor) == [at |-> _prev, len |-> _cursor - _prev]

\* A request line and k header lines: "a a a" then k times LF "a: a".
HeaderLines(k) ==
    [i \in 1..(5 * k + 5) |->
        IF i <= 5 THEN <<97, 32, 97, 32, 97>>[i]
        ELSE <<10, 97, 58, 32, 97>>[((i - 1) % 5) + 1]]

\* How one turn of the header loop ends: the headers so far, the cursor,
\* and the position message_parse goes on at.
Turn(m, hs, c, pc) == [m EXCEPT !.headers = hs, !.cursor = c, !.pc = pc]

\* ... after the value's start is found at c3: the value runs to CR or LF.
header_value(m, p2, c2, c3, c4) ==
    Turn(m, Append(m.headers, [name |-> Slice(p2, c2), value |-> Slice(c3, c4)]),
         c4, "headers")

\* ... after the name [p2, c2): skip to a space or NUL.
header_space(b, m, p2, c2, c3) ==
    IF At(b, c3) = 0 THEN Turn(m, m.headers, c3, "body")
    ELSE header_value(m, p2, c2, c3, scan(b, c3, {13, 10}))

\* ... after the line feed: the name runs to ':' or LF.
header_name(b, m, p2, c2) ==
    IF At(b, c2) # 58 THEN Turn(m, m.headers, c2, "body")
    ELSE header_space(b, m, p2, c2, scan(b, c2 + 1, {32, 0}))

\* ... the cursor c1 after the skip to LF or NUL.
header_line(b, m, c1) ==
    IF At(b, c1) = 0 THEN Turn(m, m.headers, c1, "body")
    ELSE header_name(b, m, c1 + 1, scan(b, c1 + 1, {58, 10}))

\* One turn of the header loop of message_parse; _i is the number of
\* headers stored so far.
parse_header(b, m) ==
    IF ~(Len(m.headers) < HEADER_BUFFER_SIZE /\ m.cursor < Len(b))
    THEN Turn(m, m.headers, m.cursor, "body")
    ELSE IF At(b, m.cursor) = 0 THEN Turn(m, m.headers, m.cursor, "body")
    ELSE header_line(b, m, scan(b, m.cursor, {10, 0}))

NoBody == [some |-> FALSE, at |-> 0, len |-> 0]

\* The body without the test of the cursor against the length.
parse_body_unchecked(b, c) ==
    [some |-> TRUE, at |-> c + 1, len |-> Len(b) - (c + 1)]

\* if (++_cursor < length) the body is the rest, else there is none.
parse_body(b, c) ==
    IF c + 1 < Len(b)
    THEN [some |-> TRUE, at |-> c + 1, len |-> Len(b) - (c + 1)]
    ELSE NoBody

\* The message before message_parse.
NoMessage ==
    [pc |-> "start", ret |-> 0, cursor |-> 0, method |-> Slice(0, 0),
     target |-> Slice(0, 0), version |-> Slice(0, 0), headers |-> <<>>,
     body |-> NoBody]

ParseFail == [NoMessage EXCEPT !.pc = "done", !.ret = -1]

parse_version(method, target, p, c) ==
    [NoMessage EXCEPT !.pc = "headers", !.cursor = c, !.method = method,
                      !.target = target, !.version = Slice(p, c)]

parse_target(b, method, p, c) ==
    IF At(b, c) # 32 THEN ParseFail
    ELSE parse_version(method, Slice(p, c), c + 1,
                       scan(b, c + 1, {32, 13, 10, 0}))

parse_method(b, c) ==
    IF At(b, c) # 32 THEN ParseFail
    ELSE parse_target(b, Slice(0, c), c + 1, scan(b, c + 1, {32, 13, 10, 0}))

\* The request line of message_parse: method, target, version.
parse_request_line(b) == parse_method(b, scan(b, 0, {32, 13, 10, 0}))

InitParse ==
    /\ engine = "epoll"
    /\ tls = FALSE
    /\ InitPoolState
    /\ InitCallers
    /\ InitPollerIdle
    /\ InitRunning
    /\ next_job = NULL
    /\ InitIdle
    /\ call_arg \in SeqsUpTo(ParseBytes, MaxBuf)
                    \cup {HeaderLines(k) : k \in (MaxHeaderLines - 3)..MaxHeaderLines}
    /\ call_ret = NoMessage

callOthers == <<poolVars, callerVars, ptVars, stopVars, call_arg, engineVars>>

ParseRequestLine ==
    /\ call_ret.pc = "start"
    /\ call_ret' = parse_request_line(call_arg)
    /\ UNCHANGED callOthers

ParseHeader ==
    /\ call_ret.pc = "headers"
    /\ call_ret' = parse_header(call_arg, call_ret)
    /\ UNCHANGED callOthers

ParseBody ==
    /\ call_ret.pc = "body"
    /\ call_ret' = [call_ret EXCEPT !.pc = "done",
                                    !.body = parse_body(call_arg, call_ret.cursor)]
    /\ UNCHANGED callOthers

NextParse == ParseRequestLine \/ ParseHeader \/ ParseBody

\* SpecParse: message_parse on every short request and on requests with
\* more header lines than HEADER_BUFFER_SIZE.
SpecParse == InitParse /\ [][NextParse]_vars

\* --------------------------------------------------------------- method

MaxMethod == 4

GET == <<71, 69, 84>>

HEAD == <<72, 69, 65, 68>>

OPTIONS == <<79, 80, 84, 73, 79, 78, 83>>

\* strncmp(_req->method, name, n) == 0 with n the length of name: the n
\* bytes of the request from the start of the method are those of name.
strncmp_method(b, at, name) ==
    \A i \in 1..Len(name) : At(b, at + i - 1) = name[i]

\* The branch of http_process a parsed (or not) message takes.
method_branch(b, m) ==
    IF m.ret = -1 THEN "malformed"
    ELSE IF strncmp_method(b, m.method.at, GET) THEN "GET"
    ELSE IF strncmp_method(b, m.method.at, HEAD) THEN "HEAD"
    ELSE IF strncmp_method(b, m.method.at, OPTIONS) THEN "OPTIONS"
    ELSE "other"

\* The method tokens tried: every token up to MaxMethod bytes over G E T X,
\* every prefix of the three names, each name with one more byte.
MethodTokens ==
    SeqsUpTo({71, 69, 84, 88}, MaxMethod)
    \cup UNION {{SubSeq(n, 1, k) : k \in 0..Len(n)} : n \in {GET, HEAD, OPTIONS}}
    \cup {n \o <<88>> : n \in {GET, HEAD, OPTIONS}}

\* The method slice of a parsed message, as bytes.
MethodToken(b, m) == SubSeq(b, m.method.at + 1, m.method.at + m.method.len)

InitMethod ==
    /\ engine = "epoll"
    /\ tls = FALSE
    /\ InitPoolState
    /\ InitCallers
    /\ InitPollerIdle
    /\ InitRunning
    /\ next_job = NULL
    /\ InitIdle
    /\ call_arg \in {t \o <<32, 47, 32, 97>> : t \in MethodTokens}
    /\ call_ret = NoMessage

\* http_process after message_parse, for a file that is found or not.
Process ==
    /\ call_ret.pc = "done"
    /\ \E found \in BOOLEAN :
        call_ret' =
            [pc |-> "processed", ret |-> call_ret.ret,
             method |-> call_ret.method, found |-> found,
             http |-> http_process(job_init,
                                   [method |-> method_branch(call_arg, call_ret),
                                    found |-> found, size |-> FileLen])]
    /\ UNCHANGED callOthers

NextMethod == ParseRequestLine \/ ParseHeader \/ ParseBody \/ Process

\* SpecMethod: http_process on requests "<token> / a".
SpecMethod == InitMethod /\ [][NextMethod]_vars

\* ------------------------------------------------------------- responses

\* The Connection header of the head built for a status: build_head_file
\* (200), build_head_options (204), build_head_error's switch (400, 404,
\* 405, default 500).
head_connection(status) ==
    CASE status = 200 -> "keep-alive"
      [] status = 204 -> "keep-alive"
      [] status = 400 -> "close"
      [] status = 404 -> "keep-alive"
      [] status = 405 -> "keep-alive"
      [] OTHER -> "close"

\* --------------------------------------------------------------- config

MaxOpt == 8

\* config_get: what it stores in config->max_job and config->worker.max_job
\* for the parsed options (int_parse lets only positive numbers through).
config_get(max_conn, worker_cnt) ==
    [done |-> TRUE,
     max_job |-> max_conn + 2,
     worker_max_job |-> (max_conn \div worker_cnt) + 1]

InitConfig ==
    /\ engine = "epoll"
    /\ tls = FALSE
    /\ InitPoolState
    /\ InitCallers
    /\ InitPollerIdle
    /\ InitRunning
    /\ next_job = NULL
    /\ InitIdle
    /\ call_arg \in [max_conn : 1..MaxOpt, worker_cnt : 1..MaxOpt]
    /\ call_ret = [done |-> FALSE, max_job |-> 0, worker_max_job |-> 0]

ConfigGet ==
    /\ ~call_ret.done
    /\ call_ret' = config_get(call_arg.max_conn, call_arg.worker_cnt)
    /\ UNCHANGED callOthers

\* SpecConfig: config_get on every pair of small positive options.
SpecConfig == InitConfig /\ [][ConfigGet]_vars

\* ------------------------------------------------------------ job_reset
\* http_cleanup: the descriptors it closes (file_fd when it is > 0).
http_cleanup_closes(j) ==
    IF j.file_fd > 0 THEN {j.file_fd} ELSE {}

\* -------------------------------------------------------- TLS handshake

\* Cap on the handshake steps of one connection.
MaxHandshake == 8

\* A connection accepted on a TLS listener, before its first wake.
InitTls ==
    /\ engine = "epoll"
    /\ tls = TRUE
    /\ InitPoolState
    /\ InitCallers
    /\ InitPollerIdle
    /\ InitRunning
    /\ next_job = NULL
    /\ InitIdle
    /\ call_arg = [ssl |-> TRUE, tls_established |-> FALSE]
    /\ call_ret = [n |-> 0, ret |-> 0, was |-> FALSE,
                   accept |-> [ret |-> 0, err |-> "SSL_ERROR_NONE"]]

\* job_read calls the handshake step on a wake while the handshake is not
\* complete; a step that returned -1 was the connection's last.
EstablishTls ==
    /\ call_arg.ssl /\ ~call_arg.tls_established
    /\ call_ret.ret = 0
    /\ call_ret.n < MaxHandshake
    /\ \E a \in AcceptOutcomes :
        /\ call_arg' = connection_establish_tls(call_arg, a).conn
        /\ call_ret' = [n |-> call_ret.n + 1,
                        ret |-> connection_establish_tls(call_arg, a).ret,
                        was |-> call_arg.tls_established,
                        accept |-> a]
    /\ UNCHANGED <<poolVars, callerVars, ptVars, stopVars, engineVars>>

\* SpecTls: the handshake steps of one connection, whatever SSL_accept does.
SpecTls == InitTls /\ [][EstablishTls]_vars

\* ------------------------------------------- epoll: the item counter

\* Cap on the poller_add and poller_remove calls started in SpecCount.
MaxCalls == 6

\* The width of size_t, scaled down: item_count wraps at 2^SizeBits.
SizeBits == 8
SizeMod == 2 ^ SizeBits

\* The two threads that call into one worker's poller: a listener
\* (worker_assign -> poller_add) and the worker (finish_job ->
\* poller_remove).
CountThreads == {"listener", "worker"}

\* A thread outside poller_add / poller_remove.
Outside == [pc |-> "idle", fd |-> 0, tmp |-> 0]

\* The poller of one worker after poller_init, and the two threads.
InitCount ==
    /\ engine = "epoll"
    /\ tls = FALSE
    /\ InitPoolState
    /\ InitCallers
    /\ InitPollerIdle
    /\ InitRunning
    /\ next_job = NULL
    /\ InitIdle
    /\ call_arg = [item_count |-> 0, fds |-> {}, calls |-> 0]
    /\ call_ret = [t \in CountThreads |-> Outside]

CountStep(arg, t, frame) ==
    /\ call_arg' = arg
    /\ call_ret' = [call_ret EXCEPT ![t] = frame]
    /\ UNCHANGED <<poolVars, callerVars, ptVars, stopVars, engineVars>>

\* poller_add, the capacity check: if (item_count >= item_size) return -1.
\* The listener adds the socket it has just accepted.
poller_add_check ==
    /\ call_ret["listener"].pc = "idle"
    /\ call_arg.calls < MaxCalls
    /\ \E fd \in Fds \ call_arg.fds :
        CountStep([call_arg EXCEPT !.calls = @ + 1], "listener",
                  IF call_arg.item_count >= worker_max_job
                  THEN Outside
                  ELSE [pc |-> "add_ctl", fd |-> fd, tmp |-> 0])

\* poller_add: epoll_ctl(EPOLL_CTL_ADD); from here on the kernel reports
\* the descriptor's events to the worker.
poller_add_ctl ==
    /\ call_ret["listener"].pc = "add_ctl"
    /\ CountStep([call_arg EXCEPT !.fds = @ \cup {call_ret["listener"].fd}],
                 "listener",
                 [call_ret["listener"] EXCEPT !.pc = "add_load"])

\* poller_add: item_count++, the read.
poller_add_load ==
    /\ call_ret["listener"].pc = "add_load"
    /\ CountStep(call_arg, "listener",
                 [call_ret["listener"] EXCEPT !.pc = "add_store",
                                              !.tmp = call_arg.item_count])

\* poller_add: item_count++, the write.
poller_add_store ==
    /\ call_ret["listener"].pc = "add_store"
    /\ CountStep([call_arg EXCEPT
                    !.item_count = (call_ret["listener"].tmp + 1) % SizeMod],
                 "listener", Outside)

\* poller_remove from finish_job, for an event of a registered descriptor:
\* epoll_ctl(EPOLL_CTL_DEL).
poller_remove_ctl ==
    /\ call_ret["worker"].pc = "idle"
    /\ call_arg.calls < MaxCalls
    /\ \E fd \in call_arg.fds :
        CountStep([call_arg EXCEPT !.calls = @ + 1, !.fds = @ \ {fd}],
                  "worker", [pc |-> "rem_load", fd |-> fd, tmp |-> 0])

\* poller_remove: item_count--, the read.
poller_remove_load ==
    /\ call_ret["worker"].pc = "rem_load"
    /\ CountStep(call_arg, "worker",
                 [call_ret["worker"] EXCEPT !.pc = "rem_store",
                                            !.tmp = call_arg.item_count])

\* poller_remove: item_count--, the write (size_t: 0 - 1 wraps).
poller_remove_store ==
    /\ call_ret["worker"].pc = "rem_store"
    /\ CountStep([call_arg EXCEPT
                    !.item_count = (call_ret["worker"].tmp - 1) % SizeMod],
                 "worker", Outside)

NextCount ==
    \/ poller_add_check
    \/ poller_add_ctl
    \/ poller_add_load
    \/ poller_add_store
    \/ poller_remove_ctl
    \/ poller_remove_load
    \/ poller_remove_store

\* SpecCount: one epoll poller, a listener thread adding and the worker
\* thread removing, every interleaving of their statements.
SpecCount == InitCount /\ [][NextCount]_vars

\* ------------------------------------------ event ports: wake and re-arm

\* thread_routine on event ports, up to the handler: port_getn returns one
\* event, which dissociates the descriptor, and item_count is decremented
\* under the lock; the fetched event waits in wpend for its on_event.
PortGet(w, codes) ==
    /\ engine = "evport"
    /\ wpc[w] = "wait"
    /\ wpend[w] = <<>>
    /\ \E it \in reg[w] :
        \E code \in EventCodes({x[2] : x \in OfFd(reg[w], it[1])}) \cap codes :
            /\ reg' = [reg EXCEPT ![w] = @ \ OfFd(reg[w], it[1])]
            /\ item_count' = [item_count EXCEPT ![w] = @ - 1]
            /\ wpend' = [wpend EXCEPT ![w] = <<[code |-> code, ctx |-> it[3]]>>]
    /\ UNCHANGED <<poolVars, thrVars, engine, tls, job, wpc, wjob,
                   listenerVars, netVars, histVars>>

\* thread_routine on event ports: on_event for the fetched event, against
\* the poller as it is by now.
PortEvent(w, reqs, ks, errs) ==
    /\ engine = "evport"
    /\ wpc[w] = "wait"
    /\ wpend[w] # <<>>
    /\ wpend' = [wpend EXCEPT ![w] = Tail(wpend[w])]
    /\ Dispatch(w, Head(wpend[w]).ctx, Head(wpend[w]).code, reg[w],
                item_count[w], reqs, ks, errs)
    /\ UNCHANGED <<poolVars, thrVars, engine, tls, listenerVars,
                   netVars, n_close, n_return, assign_log, tried, any_fail,
                   lret>>

\* The event-ports server with all jobs but the listener's next job with
\* the workers.
InitPort == InitReject /\ engine = "evport"

\* The events of SpecPort: a request, or the peer's close.
PortCodes == {POLL_CODE_READ, POLL_CODE_CLOSE}

NextPort ==
    \/ Arrive(max_job + 1)
    \/ ListenerWake
    \/ ListenerAccept({FALSE})
    \/ ListenerAssign
    \/ ListenerRefill
    \/ ListenerReject({FALSE})
    \/ \E w \in Workers :
        \/ PortGet(w, PortCodes)
        \/ PortEvent(w, SpecRequests, {FileLen}, {FALSE})
        \/ WorkerClose(w)
        \/ WorkerReturn(w)

\* SpecPort: the event-ports build, port_getn and the handler apart.
SpecPort == InitPort /\ [][NextPort]_vars

\* -------------------------------------------------------- poller_modify

\* The descriptors of SpecModify.
MaxModFd == 2
ModFds == 1..MaxModFd

\* The registrations a poller can hold for these descriptors: each with
\* READ, WRITE, both or none, its context being its number.
ModRegs ==
    SUBSET {<<fd, b, fd>> : fd \in ModFds,
                            b \in {POLL_CODE_READ, POLL_CODE_WRITE}}

\* The generic poll poller_modify on a descriptor that map_get does not
\* find: the test `if (_fd_data)` lets NULL through and the next statement
\* reads _fd_data->index. Undefined behaviour: the process is killed, or
\* the call writes somewhere and returns 0.
ModifyFaults(P) ==
    {[ok |-> FALSE, reg |-> P.reg, cnt |-> P.cnt, crashed |-> TRUE],
     [ok |-> TRUE, reg |-> P.reg, cnt |-> P.cnt, crashed |-> FALSE]}

\* What a poller_modify call that returned r made of the poller.
Returned(r) ==
    [ok |-> r.ok, reg |-> r.reg, cnt |-> r.cnt, crashed |-> FALSE]

\* The outcomes of poller_modify(fd, code) on the poller P of backend e.
ModifyOutcomes(e, P, fd, code) ==
    IF e = "upoll" /\ OfFd(P.reg, fd) = {}
    THEN ModifyFaults(P)
    ELSE {Returned(poller_modify(e, P, fd, code, fd, TRUE))}

InitModify ==
    /\ engine \in Engines
    /\ tls = FALSE
    /\ InitPoolState
    /\ InitCallers
    /\ InitPollerIdle
    /\ InitRunning
    /\ next_job = NULL
    /\ InitIdle
    /\ call_arg \in [reg : ModRegs, fd : ModFds,
                     code : {POLL_CODE_READ, POLL_CODE_WRITE, POLL_RW}]
    /\ call_ret = [done |-> FALSE, ok |-> FALSE, reg |-> {}, crashed |-> FALSE]

\* One call of poller_modify.
Modify ==
    /\ ~call_ret.done
    /\ \E r \in ModifyOutcomes(engine, Poller(call_arg.reg,
                                              Cardinality(call_arg.reg)),
                               call_arg.fd, call_arg.code) :
        call_ret' = [done |-> TRUE, ok |-> r.ok, reg |-> r.reg,
                     crashed |-> r.crashed]
    /\ UNCHANGED callOthers

\* SpecModify: poller_modify of each backend, on every small poller.
SpecModify == InitModify /\ [][Modify]_vars

\* ---------------------------------------------------- buffered sendfile

\* The largest file and the largest scratch buffer of SpecSendfile (bytes).
MaxFile == 4
MaxScratch == 3

\* The file: byte i of it is the number i.
FileBytes(file_size) == [i \in 1..file_size |-> i]

\* The file offset with the lseek call left out.
lseek_none(pos, offset) == pos

\* lseek(file_fd, offset, SEEK_SET): the resulting file offset.
lseek(pos, offset) == offset

\* _chunk = _remaining <= buffer_size ? _remaining : buffer_size.
chunk_size(file_size, buffer_size, sent) ==
    Min(file_size - sent, buffer_size)

\* What read(file_fd, buffer, _chunk) can return at offset _seek: up to
\* _chunk bytes, and no more than the file has left there.
ReadCounts(file_size, _seek, _chunk) ==
    0..Min(_chunk, IF _seek < file_size THEN file_size - _seek ELSE 0)

\* The state of a sendfile after one loop turn that read _read bytes at
\* _seek, of which the socket took k (0: it would block); fail: send
\* failed with another error. For the history: the offset and the size of
\* the last chunk, the bytes taken of it, and whether a send has been
\* short and whether one has found the socket full.
sendfile_turn(m, file_size, _seek, _read, k, fail) ==
    [sent |-> IF fail THEN m.sent ELSE m.sent + k,
     pos |-> _seek + _read,
     wire |-> IF fail THEN m.wire
              ELSE m.wire \o [i \in 1..k |-> FileBytes(file_size)[_seek + i]],
     chunk |-> _read,
     seek |-> _seek,
     took |-> k,
     short |-> (m.short \/ (0 < k /\ k < _read)),
     blocked |-> (m.blocked \/ (~fail /\ _read > 0 /\ k = 0)),
     pc |-> IF fail THEN "failed"
            ELSE IF _read = 0 \/ k = 0 \/ m.sent + k >= file_size THEN "idle"
            ELSE "loop"]

\* A file response about to be sent: nothing sent, the file just opened.
InitSendfile ==
    /\ engine = "epoll"
    /\ tls \in BOOLEAN
    /\ InitPoolState
    /\ InitCallers
    /\ InitPollerIdle
    /\ InitRunning
    /\ next_job = NULL
    /\ InitIdle
    /\ call_arg \in [file_size : 0..MaxFile, buffer_size : 1..MaxScratch]
    /\ call_ret = [sent |-> 0, pos |-> 0, wire |-> <<>>, chunk |-> 0,
                   seek |-> 0, took |-> 0, short |-> FALSE,
                   blocked |-> FALSE, pc |-> "idle"]

\* A WRITE wake: job_write calls connection_sendfile, which enters the loop
\* `for (; *sent < file_size;)` of buff_sendfile (bssl_sendfile with TLS).
connection_sendfile ==
    /\ call_ret.pc = "idle"
    /\ call_ret.sent < call_arg.file_size
    /\ call_ret' = [call_ret EXCEPT !.pc = "loop"]
    /\ UNCHANGED callOthers

\* One turn of the loop: lseek, read, send (SSL_write).
buff_sendfile ==
    /\ call_ret.pc = "loop"
    /\ \E r \in ReadCounts(call_arg.file_size,
                          lseek(call_ret.pos, call_ret.sent),
                          chunk_size(call_arg.file_size, call_arg.buffer_size,
                                     call_ret.sent)) :
        \E k \in 0..r, fail \in BOOLEAN :
            /\ fail => k = 0 /\ r > 0
            /\ call_ret' = sendfile_turn(call_ret, call_arg.file_size,
                                         lseek(call_ret.pos, call_ret.sent),
                                         r, k, fail)
    /\ UNCHANGED callOthers

NextSendfile == connection_sendfile \/ buff_sendfile

\* SpecSendfile: the buffered sendfile of one file response over any
\* number of calls, with short reads, short sends and would-block.
SpecSendfile == InitSendfile /\ [][NextSendfile]_vars

\* ------------------------------------------------------ path buffer

MaxSize == 16

SLASH_INDEX_HTML == <<47>> \o INDEX_HTML

\* The bytes a short target is drawn from here: '/' 'd' 'x'
BufferBytes == {47, 100, 120}

\* snprintf(path, size, "%s%.*s", ...): at most size - 1 characters and a
\* NUL are stored; the value returned is the length of the whole string.
\* top is the highest index of path that was written.
snprintf(size, str) ==
    [buf |-> SubSeq(str, 1, Min(Len(str), size - 1)),
     ret |-> Len(str),
     top |-> Min(Len(str), size - 1)]

\* strncat(dest, src, n): at most n characters of src are stored after the
\* end of dest, then a NUL.
strncat(dest, src, n) ==
    [buf |-> dest \o SubSeq(src, 1, Min(Len(src), n)),
     top |-> Len(dest) + Min(Len(src), n)]

BufferResult(r, path, top) ==
    [done |-> TRUE, ret |-> r, path |-> path, top |-> top]

\* message_resolve_path with a path buffer of size bytes, after snprintf and
\* decode_url: buf is what decode_url left, _length the length it returned.
resolve_sized(fs, root, size, buf, _length, top) ==
    LET first == IF _length <= 0 \/ buf[_length] = 47
                 THEN strncat(CStr(buf), INDEX_HTML, size - _length)
                 ELSE [buf |-> CStr(buf), top |-> top]
        high == IF first.top > top THEN first.top ELSE top
    IN  IF ~check_path(fs, first.buf, root)
        THEN BufferResult(-1, first.buf, high)
        ELSE IF Kind(fs, realpath_names(fs, first.buf, FALSE)) = "file"
             THEN BufferResult(0, first.buf, high)
             ELSE LET last == strncat(first.buf, SLASH_INDEX_HTML,
                                      size - _length)
                  IN  BufferResult(0, last.buf,
                                   IF last.top > high THEN last.top ELSE high)

message_resolve_path_sized(fs, target, root, size) ==
    LET out == snprintf(size, root \o BeforeQuery(target))
        buf == decode_url(out.buf)
    IN  IF buf = FAIL THEN BufferResult(-1, out.buf, out.top)
        ELSE resolve_sized(fs, root, size, buf, Len(buf), out.top)

InitBuffer ==
    /\ engine = "epoll"
    /\ tls = FALSE
    /\ InitPoolState
    /\ InitCallers
    /\ InitPollerIdle
    /\ InitRunning
    /\ next_job = NULL
    /\ InitIdle
    /\ call_arg \in [target : SeqsUpTo(BufferBytes, 2), size : 1..MaxSize]
    /\ call_ret = [done |-> FALSE, ret |-> 0, path |-> <<>>, top |-> 0]

ResolveSized ==
    /\ ~call_ret.done
    /\ call_ret' = message_resolve_path_sized(FileSystem("file"),
                                              call_arg.target, ROOT,
                                              call_arg.size)
    /\ UNCHANGED <<poolVars, callerVars, ptVars, stopVars, call_arg,
                   engineVars>>

\* SpecBuffer: message_resolve_path on short targets with every buffer size
\* up to MaxSize.
SpecBuffer == InitBuffer /\ [][ResolveSized]_vars

\* ------------------------------------- generic poll: items and fd map

\* item_size of the poller of SpecItems, and its highest descriptor.
ItemSize == 4

MaxPollFd == 2

PollFds == 0..MaxPollFd

Buckets == 0..(ItemSize - 1)

\* A struct pollfd as calloc and poller_remove leave it. revents is written
\* by poll() only and is left out.
NO_ITEM == [fd |-> 0, events |-> 0]

\* The place in a chain of the first item whose key is fd, 0 for none.
map_find(chain, fd) ==
    IF \A i \in 1..Len(chain) : chain[i].fd # fd THEN 0
    ELSE CHOOSE i \in 1..Len(chain) :
            /\ chain[i].fd = fd
            /\ \A k \in 1..(i - 1) : chain[k].fd # fd

\* map_add: the new item goes to the end of the chain of its hash; the key
\* is not looked up first.
map_add(map, _hash, _fd_data) ==
    IF map.count >= ItemSize THEN [ret |-> -1, map |-> map]
    ELSE [ret |-> 0,
          map |-> [chains |-> [map.chains EXCEPT
                                  ![_hash] = Append(@, _fd_data)],
                   count |-> map.count + 1]]

DropAt(chain, i) ==
    [k \in 1..(Len(chain) - 1) |-> IF k < i THEN chain[k] ELSE chain[k + 1]]

map_remove(map, _hash, fd) ==
    IF map.count <= 0 \/ map_find(map.chains[_hash], fd) = 0 THEN map
    ELSE [chains |-> [map.chains EXCEPT
                         ![_hash] = DropAt(@, map_find(@, fd))],
          count |-> map.count - 1]

\* _fd_data = map_get(...); if (_fd_data) _fd_data->index = _index;
set_index(map, _hash, fd, _index) ==
    IF map.count <= 0 \/ map_find(map.chains[_hash], fd) = 0 THEN map
    ELSE [map EXCEPT !.chains[_hash][map_find(map.chains[_hash], fd)].index
                        = _index]

AddResult(P, r, items) ==
    [ret |-> r.ret,
     P |-> [P EXCEPT !.items = items, !.fd_map = r.map,
                     !.item_count = IF r.ret = -1 THEN @ ELSE @ + 1]]

\* poller_add of the generic poll backend, on the items array and the map.
\* item_count is below item_size - 1 past the first test, so both object
\* pools (item_size objects each) have a free object.
poller_add_items(P, fd, code) ==
    IF P.item_count >= ItemSize - 1 THEN [ret |-> -1, P |-> P]
    ELSE AddResult(P,
             map_add(P.fd_map, P.hash[fd],
                     [fd |-> fd, index |-> P.item_count]),
             [P.items EXCEPT ![P.item_count + 1] =
                                 [fd |-> fd, events |-> code]])

\* poller_remove past map_get: _index is the index of the entry found,
\* _tail the last item in use.
remove_at(P, fd, _index, _tail, map) ==
    LET move == _tail.fd # 0 /\ _tail.fd # fd
        items == IF move THEN [P.items EXCEPT ![_index + 1] = _tail]
                 ELSE P.items
    IN  [P EXCEPT !.items = [items EXCEPT ![P.item_count] = NO_ITEM],
                  !.fd_map = IF move
                             THEN set_index(map, P.hash[_tail.fd], _tail.fd,
                                            _index)
                             ELSE map,
                  !.item_count = @ - 1]

poller_remove_items(P, fd) ==
    IF P.fd_map.count <= 0 \/ map_find(P.fd_map.chains[P.hash[fd]], fd) = 0
    THEN [ret |-> -1, P |-> P]
    ELSE [ret |-> 0,
          P |-> remove_at(P, fd,
                    P.fd_map.chains[P.hash[fd]]
                        [map_find(P.fd_map.chains[P.hash[fd]], fd)].index,
                    P.items[P.item_count],
                    map_remove(P.fd_map, P.hash[fd], fd))]

\* Every hash function: FNV-1a of the descriptor's bytes modulo the map
\* size puts each descriptor in some bucket.
InitItems ==
    /\ engine = "upoll"
    /\ tls = FALSE
    /\ InitPoolState
    /\ InitCallers
    /\ InitPollerIdle
    /\ InitRunning
    /\ next_job = NULL
    /\ InitIdle
    /\ call_arg \in [items : {[i \in 1..ItemSize |-> NO_ITEM]},
                     item_count : {0},
                     fd_map : {[chains |-> [b \in Buckets |-> <<>>],
                                count |-> 0]},
                     hash : [PollFds -> Buckets]]
    /\ call_ret = [fds |-> {}, ret |-> 0, op |-> "none"]

\* A call of poller_add; fds is the set of descriptors added with success
\* and not removed since.
ItemsAdd(fd, code) ==
    /\ call_arg' = poller_add_items(call_arg, fd, code).P
    /\ call_ret' = [fds |-> IF poller_add_items(call_arg, fd, code).ret = 0
                            THEN call_ret.fds \cup {fd} ELSE call_ret.fds,
                    ret |-> poller_add_items(call_arg, fd, code).ret,
                    op |-> "add"]
    /\ UNCHANGED <<poolVars, callerVars, ptVars, stopVars, engineVars>>

ItemsRemove(fd) ==
    /\ call_arg' = poller_remove_items(call_arg, fd).P
    /\ call_ret' = [fds |-> IF poller_remove_items(call_arg, fd).ret = 0
                            THEN call_ret.fds \ {fd} ELSE call_ret.fds,
                    ret |-> poller_remove_items(call_arg, fd).ret,
                    op |-> "remove"]
    /\ UNCHANGED <<poolVars, callerVars, ptVars, stopVars, engineVars>>

NextItems ==
    \/ \E fd \in PollFds : ItemsAdd(fd, POLL_CODE_READ)
    \/ \E fd \in PollFds : ItemsRemove(fd)

\* SpecItems: every sequence of poller_add and poller_remove calls on one
\* generic poll poller, from one thread.
SpecItems == InitItems /\ [][NextItems]_vars

\* ------------------------------------------------------ claims: pool

IsInjective(seq) ==
    \A i, j \in 1..Len(seq) : i # j => seq[i] # seq[j]

\* The cells a thread owns: those it holds, and the one an acquire is about
\* to return to it.
InHand(t) ==
    held[t] \cup (IF tpc[t] = "acq_unlock" /\ tnode[t] # NULL
                  THEN {tnode[t]} ELSE {})

Quiescent == \A t \in Threads : tpc[t] = "idle"

HeldCells == UNION {held[t] : t \in Threads}

\* C6: under every interleaving of objpool_acquire and objpool_release by
\* several threads, no cell is held by two callers at once and no cell is
\* twice on the free list (the list is acyclic and without duplicates).
C6_NoDoubleHold ==
    /\ \A t1, t2 \in Threads : t1 # t2 => InHand(t1) \cap InHand(t2) = {}
    /\ Len(FreeList) <= max_job
    /\ IsInjective(FreeList)
    /\ \A t \in Threads : held[t] \cap FreeCells = {}

\* C6 witness: both threads hold a cell, a release has completed, and a
\* thread is inside the critical section while the other one holds a cell.
C6_Witness ==
    /\ \A t \in Threads : held[t] # {}
    /\ n_released > 0
    /\ \E t \in Threads : lock = t /\ tpc[t] \in {"acq_pop", "rel_push"}

\* C7: between calls, held cells = acquires - releases and held + free =
\* count; an acquire reads NULL exactly when the free list is empty and
\* then leaves next_free NULL; a released cell is the head of the free
\* list, so the next acquire returns it.
C7_Conservation ==
    /\ Quiescent =>
          /\ Cardinality(HeldCells) = n_acquired - n_released
          /\ Cardinality(HeldCells) + Len(FreeList) = max_job
    /\ \A t \in Threads :
          /\ tpc[t] = "acq_pop" => (tnode[t] = NULL <=> FreeList = <<>>)
          /\ (tpc[t] = "acq_unlock" /\ tnode[t] = NULL) => next_free = NULL
          /\ (tpc[t] = "acq_unlock" /\ tnode[t] # NULL) =>
                tnode[t] \notin FreeCells
          /\ tpc[t] = "rel_unlock" =>
                (next_free = tnode[t] /\ tnode[t] \in FreeCells)

\* C7 witness: every cell is held although a release has happened (a
\* released cell was handed out again), and an acquire then read NULL.
C7_Witness ==
    /\ n_released > 0
    /\ Cardinality(HeldCells) = max_job
    /\ \E t \in Threads : tpc[t] = "acq_unlock" /\ tnode[t] = NULL

\* ------------------------------------------------------- claims: engine

\* The places a job can be in.
OnFreeList(c) == c \in FreeCells

ListenerHolds(c) ==
    IF lpc = "wait" THEN next_job = c
    ELSE IF lpc \in {"loop", "assign"} THEN ljob = c
    ELSE FALSE

WorkerHolds(w, c) ==
    \/ \E it \in reg[w] : it[3] = c
    \/ wpc[w] # "wait" /\ wjob[w] = c

PlaceCount(c) ==
    (IF OnFreeList(c) THEN 1 ELSE 0)
    + (IF ListenerHolds(c) THEN 1 ELSE 0)
    + Cardinality({w \in Workers : WorkerHolds(w, c)})

\* C1: at every moment each job is in exactly one place: on the pool's
\* free list (once), held by the listener as its next job, or with exactly
\* one worker (registered in its poller or inside its finish_job).
C1_OnePlace ==
    /\ IsInjective(FreeList)
    /\ \A c \in Cells : PlaceCount(c) = 1

\* C2: every job_reset of a job in state Write finds the response wholly
\* flushed (job_has_more_write false) and should_close unset.
C2_ResetOnlyWhenFlushed ==
    \A w \in Workers : \A i \in 1..Len(resets[w]) :
        resets[w][i].state = JOB_STATE_WRITE
            => ~resets[w][i].more /\ ~resets[w][i].should_close

\* A 200 keep-alive response that has been sent completely.
Sent200(j) ==
    /\ j.status = 200
    /\ ~j.should_close
    /\ j.sent_head = j.head_length
    /\ ~job_has_more_write(j)

\* C3: when job_write has sent a 200 keep-alive response completely and no
\* send failed, the worker does not go on to close the connection.
C3_KeepAliveAfter200 ==
    \A w \in Workers :
        (wpc[w] = "fin_close" /\ wfin[w].cause = "write" /\ ~wfin[w].senderr)
            => ~Sent200(job[wjob[w]])

\* C4: connection_close runs at most once on the socket of a job and the
\* job is returned to the pool at most once per acquisition.
C4_CloseAndReturnOnce ==
    \A c \in Cells : n_close[c] <= 1 /\ n_return[c] <= 1

\* C5: on epoll, generic poll and kqueue finish_job has removed the fd from
\* the worker's poller when it comes to close it, and no poller holds a
\* registration of a descriptor that is closed.
C5_RemoveBeforeClose ==
    /\ \A w \in Workers : \A it \in reg[w] : it[1] \in open_fds
    /\ engine \in {"epoll", "upoll", "kqueue"} =>
        \A w \in Workers :
            wpc[w] = "fin_close" => OfFd(reg[w], job[wjob[w]].socket) = {}

\* C8: in every job, sent_head <= head_length, sent_body <= body_length and
\* sent_file <= the file size.
C8_SentWithinLength ==
    \A c \in Cells :
        /\ job[c].sent_head <= job[c].head_length
        /\ job[c].sent_body <= job[c].body_length
        /\ job[c].sent_file <= job[c].file_size

\* A file response part of whose file has gone out, on a connection that
\* has already been through a reset.
C8_Witness ==
    \E c \in Cells :
        /\ job[c].sent_head = job[c].head_length
        /\ 0 < job[c].sent_file
        /\ job[c].sent_file < job[c].file_size
        /\ \E w \in Workers : wpc[w] = "wait" /\ resets[w] # <<>>

\* Whether a worker_assign to worker w can succeed.
HasRoom(w) ==
    item_count[w] < IF engine = "upoll" THEN worker_max_job - 1
                    ELSE worker_max_job

\* C9: when the listener's on_event returns, no connection waits in the
\* accept queue if some worker has room.
C9_AcceptUntilEmpty ==
    [][(lpc # "wait" /\ lpc' = "wait")
        => (backlog' = 0 \/ ~\E w \in Workers : HasRoom(w))]_vars

\* C10: while no worker_assign has failed the i-th connection goes to
\* worker (i - 1) mod worker_count, the cursor starting at 0; the workers
\* tried by one accept_conn start at the cursor and follow in cyclic order;
\* the cursor ends just after the worker that took the job and stays there.
C10_RoundRobin ==
    /\ ~any_fail =>
        \A i \in 1..Len(assign_log) : assign_log[i] = (i - 1) % worker_count
    /\ \A k \in 1..(Len(tried) - 1) :
        tried[k + 1] = (tried[k] + 1) % worker_count
    /\ (lpc = "assign" /\ tried # <<>>) => tried[1] = worker_cycle
    /\ (lpc = "assign" /\ tried = <<>>) => lcycle = worker_cycle
    /\ (lpc # "assign" /\ assign_log # <<>>)
        => worker_cycle = (assign_log[Len(assign_log)] + 1) % worker_count

\* A worker_assign failed, the next worker took the job, and connections
\* had been assigned before.
C10_Witness ==
    /\ lpc = "refill"
    /\ Len(tried) >= 2
    /\ Len(assign_log) >= 2

\* The step of the listener that is reject_conn on a waiting connection.
RejectStep == lpc = "loop" /\ ljob = NULL /\ backlog > 0 /\ lpc' = "refill"

\* reject_conn takes the connection from the queue, leaves no descriptor
\* open, touches no job, no poller and not the pool, and the listener goes
\* on to manager_get_job.
RejectTakesNoJob ==
    RejectStep =>
        /\ backlog' = backlog - 1
        /\ open_fds' = open_fds
        /\ job' = job
        /\ reg' = reg /\ item_count' = item_count
        /\ next_free' = next_free /\ link' = link

\* The listener's on_event starts for a waiting connection with no job in
\* hand: its first turn is reject_conn.
WakeWithoutJob ==
    lpc = "wait" /\ lpc' = "loop" /\ next_job = NULL /\ backlog > 0

\* C11: without a next job the listener accepts and closes the connection,
\* consuming no job and registering nothing, then tries to acquire a job;
\* and accepting resumes as soon as a job has been released: no wake
\* starts by rejecting a connection while the pool holds a free job.
C11_RejectOnlyWhenExhausted ==
    [][RejectTakesNoJob /\ (WakeWithoutJob => FreeList = <<>>)]_vars

\* Whether WRITE interest is registered for the descriptor fd with worker w.
WriteInterest(w, fd) == \E it \in OfFd(reg[w], fd) : it[2] = POLL_CODE_WRITE

\* C12: on epoll, for every registered job that its worker is not
\* finishing (so after every return of continue_job), WRITE interest is
\* registered exactly when job_has_more_write; a job that was reset for
\* keep-alive is registered for READ only.
C12_WriteInterestIffMore ==
    engine = "epoll" =>
        \A w \in Workers : \A it \in reg[w] :
            (wpc[w] = "wait" \/ wjob[w] # it[3]) =>
                (WriteInterest(w, it[1]) <=> job_has_more_write(job[it[3]]))

\* C13: when job_write ends in finish_job for a response with should_close
\* of which a part has gone out, and no send failed, the whole response,
\* head and body, has been sent.
C13_CloseAfterFlush ==
    \A w \in Workers :
        (/\ wpc[w] = "fin_close"
         /\ wfin[w].cause = "write"
         /\ ~wfin[w].senderr
         /\ job[wjob[w]].should_close
         /\ job[wjob[w]].sent_head > 0)
            => ~job_has_more_write(job[wjob[w]])

\* C14: when the poller thread has ended, on_stop (if one was given) has
\* been called exactly once, and no on_event was called after it.
C14_OnStopOnce ==
    pt_pc = "exited" =>
        /\ pt_cfg.on_stop => n_on_stop = 1
        /\ ~ev_after_stop

\* C15: a stop takes effect between two iterations of the loop only: a
\* worker whose thread has ended is not inside finish_job (no job is left
\* deregistered but not closed, or closed but not returned).
C15_StopAtSafePoint ==
    \A w \in Workers : wth[w] = "exited" => wpc[w] = "wait"

\* C16: after poller_stop on a running listener or worker, its thread
\* eventually exits (so that poller_wait returns).
C16_StopTerminates ==
    /\ lcancel ~> lth = "exited"
    /\ \A w \in Workers : wcancel[w] ~> wth[w] = "exited"

\* C17: after the shutdown every connection that was with a worker has
\* been closed and every job is back in the pool.
C17_ShutdownClosesAll ==
    opc = "done" => open_fds = {} /\ FreeCells = Cells

\* C18: when message_resolve_path succeeds, the fully resolved form of the
\* path it gives out (an appended index.html included) is the root or lies
\* under it.
C18_PathUnderRoot ==
    (call_ret.done /\ call_ret.ret = 0) =>
        LET abs == Absolute(FileSystem(call_arg.index), call_ret.path)
        IN  abs # FAIL /\ UnderRoot(abs, ROOT)

Within(sl, n) == sl.at >= 0 /\ sl.len >= 0 /\ sl.at + sl.len <= n

\* C19: message_parse fails, or every slice it gives out (method, target,
\* version, each header's name and value, the body) lies inside the bytes
\* received and there are at most HEADER_BUFFER_SIZE headers.
C19_SlicesInside ==
    (call_ret.pc = "done" /\ call_ret.ret = 0) =>
        /\ Within(call_ret.method, Len(call_arg))
        /\ Within(call_ret.target, Len(call_arg))
        /\ Within(call_ret.version, Len(call_arg))
        /\ \A i \in 1..Len(call_ret.headers) :
            /\ Within(call_ret.headers[i].name, Len(call_arg))
            /\ Within(call_ret.headers[i].value, Len(call_arg))
        /\ call_ret.body.some =>
            call_ret.body.at < Len(call_arg) /\ Within(call_ret.body, Len(call_arg))
        /\ Len(call_ret.headers) <= HEADER_BUFFER_SIZE

\* A request with more header lines than the parser keeps has been parsed:
\* the headers stop at HEADER_BUFFER_SIZE and the rest is the body.
C19_Witness ==
    /\ call_ret.pc = "done"
    /\ call_ret.ret = 0
    /\ Len(call_ret.headers) = HEADER_BUFFER_SIZE
    /\ call_ret.body.some
    /\ call_ret.headers[HEADER_BUFFER_SIZE].value.len > 0

\* C20: a parsed request whose method token is not exactly GET, HEAD or
\* OPTIONS is answered 405 with should_close; the exact tokens give a file
\* response (GET of a file found), a head-only response (HEAD), a 204
\* (OPTIONS).
C20_ExactMethods ==
    (call_ret.pc = "processed" /\ call_ret.ret = 0) =>
        /\ MethodToken(call_arg, call_ret) \notin {GET, HEAD, OPTIONS} =>
            call_ret.http.status = 405 /\ call_ret.http.should_close
        /\ (MethodToken(call_arg, call_ret) = GET /\ call_ret.found) =>
            call_ret.http.type = RESPONSE_TYPE_FILE
        /\ MethodToken(call_arg, call_ret) = HEAD =>
            call_ret.http.type = RESPONSE_TYPE_HEAD_ONLY
        /\ MethodToken(call_arg, call_ret) = OPTIONS =>
            call_ret.http.status = 204

\* C21: the head of every response says "Connection: close" exactly when
\* the server closes the connection after it (should_close).
C21_ConnectionHeader ==
    \A c \in Cells :
        job[c].status # 0 =>
            (head_connection(job[c].status) = "close" <=> job[c].should_close)

\* C22: the response to OPTIONS is a 204 with a non-empty head and no body,
\* and job_write does not fail on it unless a send fails.
C22_OptionsHead ==
    /\ \A c \in Cells :
        job[c].status = 204 =>
            job[c].head_length > 0 /\ job[c].body_length = 0
    /\ \A w \in Workers :
        ~(/\ wpc[w] = "fin_close"
          /\ wfin[w].cause = "write"
          /\ ~wfin[w].senderr
          /\ job[wjob[w]].status = 204)

\* C23: a 404 is built with should_close unset, and a 404 that has gone out
\* whole (nothing more to write, no send failed) does not end in
\* finish_job: the job goes back to Read with its connection open.
C23_KeepAliveAfter404 ==
    /\ \A c \in Cells : job[c].status = 404 => ~job[c].should_close
    /\ \A w \in Workers :
        ~(/\ wpc[w] = "fin_close"
          /\ wfin[w].cause = "write"
          /\ ~wfin[w].senderr
          /\ job[wjob[w]].status = 404
          /\ ~job_has_more_write(job[wjob[w]]))

\* job_cleanup of worker w comes to http_cleanup with the response's file
\* descriptor set: close(file_fd) runs.
FileCloseStep(w) ==
    /\ wpc[w] = "fin_close"
    /\ wpc'[w] = "fin_return"
    /\ job[wjob[w]].file_fd = FILEFD

\* C24: the file descriptor of a response is closed once: job_cleanup does
\* not close the file of a job it has cleaned up before (job_reset clears
\* file_fd after its close, job_cleanup does not), and no job on the free
\* list holds an open socket.
C24_FileClosedOnce ==
    [][/\ \A w \in Workers : FileCloseStep(w) => n_close[wjob[w]] = 0
       /\ \A c \in FreeCells : job[c].socket \notin open_fds]_vars

\* The least integer not below a / b, for positive b.
Ceil(a, b) == (a + b - 1) \div b

\* C25: config_get sets the per-worker max_job to ceil(max_conn /
\* worker_count) + 1 and the global max_job to max_conn + 2.
C25_ConfigSizes ==
    call_ret.done =>
        /\ call_ret.worker_max_job
            = Ceil(call_arg.max_conn, call_arg.worker_cnt) + 1
        /\ call_ret.max_job = call_arg.max_conn + 2

Unsent(j) ==
    \/ j.sent_head < j.head_length
    \/ IF j.type = RESPONSE_TYPE_FILE THEN j.sent_file < j.file_size
       ELSE j.sent_body < j.body_length

\* C27: a send that would block during job_write is not an error, also when
\* it moves no byte of the head, the body or the file: no job is finished
\* because of a job_write in which no send failed while part of the
\* response is still unsent.
C27_WouldBlockKeepsJob ==
    \A w \in Workers :
        ~(/\ wpc[w] = "fin_close"
          /\ wfin[w].cause = "write"
          /\ ~wfin[w].senderr
          /\ Unsent(job[wjob[w]]))

\* C28: within one response no byte of the body or of the file goes to the
\* socket before the whole head has: a job that has sent part of its body
\* or file has sent all head_length bytes of its head.
C28_HeadBeforeBody ==
    \A c \in Cells :
        (job[c].sent_body > 0 \/ job[c].sent_file > 0)
            => job[c].sent_head = job[c].head_length

\* A job on a TLS connection whose handshake is not complete.
Handshaking(j) == j.ssl /\ ~j.tls_established

\* Cell c has a registration in the poller of worker w.
RegisteredAt(r, c) == \E it \in r : it[3] = c

\* C29: on a TLS listener nothing is received or parsed for a connection
\* before tls_established is true: a job in its handshake is in state Read
\* with no response and no byte sent; and as long as the handshake is in
\* progress (the TLS layer wants to read or to write) the job stays as it
\* is and registered with its worker, and is finished only for a CLOSE or
\* ERROR event or a handshake step that failed.
C29_HandshakeFirst ==
    [][/\ \A c \in Cells :
            Handshaking(job'[c]) =>
                /\ job'[c].state = JOB_STATE_READ
                /\ job'[c].status = 0
                /\ job'[c].head_length = 0
                /\ job'[c].sent_head = 0
       /\ \A w \in Workers : \A c \in Cells :
            (/\ RegisteredAt(reg[w], c)
             /\ Handshaking(job[c])
             /\ Handshaking(job'[c]))
            => \/ /\ job'[c] = job[c]
                  /\ RegisteredAt(reg'[w], c)
                  /\ wjob'[w] # c
               \/ /\ wpc'[w] = "fin_close"
                  /\ wjob'[w] = c
                  /\ wfin'[w].cause \in
                        {"close", "error"}
                        \cup (SslErrors \ {"SSL_ERROR_WANT_READ",
                                           "SSL_ERROR_WANT_WRITE"})]_vars

\* C30: the TLS handshake step returns 0 with tls_established true when the
\* handshake completes, 0 with tls_established as it was when the TLS layer
\* reports want-read or want-write, and -1 on any other failure.
C30_HandshakeStep ==
    call_ret.n > 0 =>
        CASE call_ret.accept.ret = 1 ->
                call_ret.ret = 0 /\ call_arg.tls_established
          [] call_ret.accept.err \in {"SSL_ERROR_WANT_READ",
                                      "SSL_ERROR_WANT_WRITE"} ->
                call_ret.ret = 0
                /\ call_arg.tls_established = call_ret.was
          [] OTHER -> call_ret.ret = -1

\* The job as job_read's recv finds it: reset if the last response is
\* still there.
Cleared(j) == IF j.state = JOB_STATE_WRITE THEN job_reset(j) ELSE j

\* What job_read does with a recv that did not fail, by the job j it was
\* called on, what it met (o) and what it returned (r): zero bytes end the
\* job unless the handshake was completed in this call; one byte or more
\* run http_process and leave the job in state Write.
ReadAsClaimed(j, o, r) ==
    IF o.req = NoRequest
    THEN IF j.ssl /\ ~j.tls_established
         THEN r.ret = 0 /\ r.j.state = JOB_STATE_READ /\ r.j.status = 0
         ELSE r.ret = -1
    ELSE /\ r.ret = 0
         /\ r.j.state = JOB_STATE_WRITE
         /\ r.j.status # 0
         /\ r.j.status = http_process(Cleared(j), o.req).status
         /\ r.j.type = http_process(Cleared(j), o.req).type
         /\ r.j.should_close = http_process(Cleared(j), o.req).should_close

\* The calls of job_read on job j in which recv is reached and does not
\* fail.
Received(j) ==
    {o \in ReadChoices(j, TRUE, Requests, {FALSE}) : o.hs = AcceptDone}

\* C31: in job_read a receive of zero bytes ends the job (-1), except on
\* the wake in which the TLS handshake has just completed, where job_read
\* returns 0 and the job stays in Read; every receive of one byte or more
\* runs http_process and moves the job to Write.
C31_EmptyReceive ==
    \A c \in Cells : \A o \in Received(job[c]) :
        ReadAsClaimed(job[c], o, job_read(job[c], o))

\* The handshake has completed on a wake that brought no request: the job
\* is in Read on its established connection, registered, its worker
\* waiting.
C31_Witness ==
    \E w \in Workers : \E c \in Cells :
        /\ wpc[w] = "wait"
        /\ wfin[w].cause = "empty"
        /\ RegisteredAt(reg[w], c)
        /\ job[c].ssl /\ job[c].tls_established
        /\ job[c].state = JOB_STATE_READ

\* C32: with the sizes of config_get the worker-selection loop of
\* accept_conn ends: for every accepted connection some worker's poller
\* takes the job within worker_count attempts.
C32_AssignTerminates == Len(tried) <= worker_count

\* The job of cell c is with worker w and not finished: registered in the
\* worker's poller on its open socket, neither back in the pool nor in
\* the listener's hands.
LiveAt(w, c) ==
    /\ \E it \in reg[w] : it[3] = c /\ it[1] = job[c].socket
    /\ job[c].socket \in open_fds
    /\ ~OnFreeList(c)
    /\ ~ListenerHolds(c)

\* C33: the worker's on_event is never called with a job that has been
\* finished: every event a waiting worker is about to handle, the next of
\* the fetched batch or one of a registration in its poller, refers to a
\* job that is with this worker and not finished.
C33_NoStaleEvent ==
    \A w \in Workers :
        wpc[w] = "wait" =>
            /\ \A i \in 1..Len(wpend[w]) : LiveAt(w, wpend[w][i].ctx)
            /\ \A it \in reg[w] : LiveAt(w, it[3])

\* C34: on epoll, under every interleaving of poller_add from a listener
\* thread and poller_remove from the worker thread, whenever no add or
\* remove is in progress item_count equals the number of descriptors
\* registered with the poller (no lost update, never below zero).
C34_CountMatches ==
    (\A t \in CountThreads : call_ret[t].pc = "idle")
        => call_arg.item_count = Cardinality(call_arg.fds)

\* The connection of cell c is with the workers and not finished, and no
\* worker has an event of it in hand.
AwaitsEvent(c) ==
    /\ job[c].socket \in open_fds
    /\ ~OnFreeList(c)
    /\ ~ListenerHolds(c)
    /\ \A w \in Workers :
        /\ ~(wpc[w] # "wait" /\ wjob[w] = c)
        /\ \A i \in 1..Len(wpend[w]) : wpend[w][i].ctx # c

\* C35: on event ports every job that is not finished when its on_event
\* returns is associated with the worker's port again, so that its next
\* readiness is delivered, also when a listener assigns jobs to the worker
\* meanwhile and the worker is at its capacity.
C35_Rearmed ==
    engine = "evport" =>
        \A c \in Cells :
            AwaitsEvent(c) => \E w \in Workers : RegisteredAt(reg[w], c)

\* C36: on every backend poller_modify on a registered descriptor replaces
\* its interest set with the given code and returns 0; on a descriptor
\* that is not registered it returns -1 and changes nothing.
C36_ModifyContract ==
    call_ret.done =>
        IF OfFd(call_arg.reg, call_arg.fd) # {}
        THEN /\ call_ret.ok
             /\ ~call_ret.crashed
             /\ call_ret.reg =
                    (call_arg.reg \ OfFd(call_arg.reg, call_arg.fd))
                    \cup Items(call_arg.fd, call_arg.code, call_arg.fd)
        ELSE /\ ~call_ret.ok
             /\ ~call_ret.crashed
             /\ call_ret.reg = call_arg.reg

\* C37: for the buffered sendfile, after any sequence of calls with short
\* sends and would-block results, the bytes handed to the socket are
\* exactly file[0 .. sent), in order, without gap or duplicate; each chunk
\* is read at offset sent and has at most scratch_size bytes, and sent
\* advances by exactly the number of bytes the socket took.
C37_SendfileInOrder ==
    /\ call_ret.sent <= call_arg.file_size
    /\ Len(call_ret.wire) = call_ret.sent
    /\ call_ret.wire = SubSeq(FileBytes(call_arg.file_size), 1, call_ret.sent)
    /\ call_ret.chunk <= call_arg.buffer_size
    /\ call_ret.took <= call_ret.chunk
    /\ call_ret.pc # "failed" => call_ret.seek = call_ret.sent - call_ret.took

\* A file larger than the scratch buffer has gone out whole, after a short
\* send and a would-block on the way.
C37_Witness ==
    /\ call_arg.file_size > call_arg.buffer_size
    /\ call_ret.short
    /\ call_ret.blocked
    /\ call_ret.sent = call_arg.file_size
    /\ call_ret.pc = "idle"
    /\ call_ret.wire = FileBytes(call_arg.file_size)

\* C38: message_resolve_path never writes outside path[0 .. size - 1]; when
\* the root and the target, with the "index.html" or "/index.html" it
\* appends, do not fit in size bytes with the terminator, it returns -1
\* instead of truncating the path or writing past the buffer.
C38_PathWithinSize ==
    call_ret.done =>
        LET whole == message_resolve_path(FileSystem("file"),
                                          call_arg.target, ROOT)
        IN  /\ call_ret.top <= call_arg.size - 1
            /\ Len(whole.path) + 1 > call_arg.size => call_ret.ret = -1

\* A connection that was accepted, handed to a worker and is not finished.
WithWorker(c) ==
    /\ job[c].socket \in open_fds
    /\ ~OnFreeList(c)
    /\ ~ListenerHolds(c)
    /\ \E w \in Workers : RegisteredAt(reg[w], c) \/ wjob[w] = c

\* C39: at no time are more than max_conn connections assigned to workers
\* (accepted and not yet finished); the listener rejects the connections
\* beyond max_conn.
C39_AtMostMaxConn == Cardinality({c \in Cells : WithWorker(c)}) <= MaxConn

\* The items of the fd map, all chains together.
MapItems(P) ==
    UNION {{P.fd_map.chains[b][i] : i \in 1..Len(P.fd_map.chains[b])} :
           b \in Buckets}

ItemsMatch(P, fds) ==
    /\ {P.items[i].fd : i \in 1..P.item_count} = fds
    /\ \A i, k \in 1..P.item_count : i # k => P.items[i].fd # P.items[k].fd
    /\ P.fd_map.count = Cardinality(fds)
    /\ \A fd \in PollFds :
        Cardinality({e \in MapItems(P) : e.fd = fd})
            = (IF fd \in fds THEN 1 ELSE 0)
    /\ \A b \in Buckets : \A i, k \in 1..Len(P.fd_map.chains[b]) :
        i # k => P.fd_map.chains[b][i].fd # P.fd_map.chains[b][k].fd
    /\ \A e \in MapItems(P) :
        /\ e.index < P.item_count
        /\ P.items[e.index + 1].fd = e.fd

\* C40: in the generic poll backend, after any sequence of successful
\* poller_add and poller_remove calls, items[0 .. item_count) holds exactly
\* the registered descriptors, none twice and with no hole, the fd map has
\* exactly one entry for each registered descriptor, and each entry's index
\* is the slot of its descriptor in items, also after a remove moved the
\* tail item into the freed slot.
C40_ItemsMatchMap == ItemsMatch(call_arg, call_ret.fds)

====
